---- MODULE Spec2Model ----
(***************************************************************************)
(* A model of the health-assistant orchestration core:                     *)
(*   app/core/simple_ai_agents.py  SimpleHealthAgent, SimpleAIOrchestrator *)
(*   app/core/simple_llm_engine.py SimpleOllamaEngine                      *)
(*   app/core/ai_agents.py         HealthAIAgent, HealthAIOrchestrator     *)
(*   app/core/llm_engine.py        LocalHealthLLM                          *)
(*                                                                         *)
(* Python strings are sequences of one-character strings, so that lower(), *)
(* `in` (substring search), len() and concatenation are computed as the    *)
(* code computes them.  One request is modelled at a time; `entry` names   *)
(* the entry point it came through.                                        *)
(***************************************************************************)
EXTENDS Integers, Sequences, FiniteSets, TLC

VARIABLES
    entry,          \* the entry point of the request being modelled
    query,          \* the query / task text of the request
    pc,             \* position of the request's coroutine
    agent_types,    \* what the selector call handed back to its caller
    sel_call,       \* how the selector's generation call ended, and its text
    sel_scans,      \* number of keyword scans the Relevance Selector ran
    sel_llm_calls,  \* number of generation calls the Relevance Selector issued
    fallback_model, \* llm_engine.fallback_model, set at construction
    user_id,        \* the user_id of the request (context['user_id']), if any
    tasks,          \* the agent coroutines awaited: role, progress, result
    max_in_flight,  \* most generation calls of agents in flight at once so far
    message_history,\* HealthAIAgent.message_history: messages stored, per role
    agent_results,  \* the list handed to _synthesize_responses
    synth_call,     \* how the synthesizer's generation call ended
    synthesis,      \* what _synthesize_responses returned
    error,          \* str(e) of the exception the entry point caught
    final,          \* the answer returned to the caller
    agent_type,     \* stream_query: the role chosen to stream
    producer,       \* stream_query: the agent's stream_process generator
    elapsed,        \* stream_query: seconds since start_time was taken
    late_chunk,     \* stream_query: some wait for a chunk lasted over 5 s
    out,            \* stream_query: the chunks yielded to the consumer
    streamed,       \* stream_query: the roles whose stream_process was called
    produced,       \* stream_query: the chunks the agent's generator has yielded
    events,         \* /chat/stream: the events the response generator has sent
    model_name,     \* SimpleOllamaEngine.model_name of the shared engine
    threads,        \* the threads running generate_response on that engine
    deletion        \* delete_user_data: the collections left, tried, failed

selVars == <<agent_types, sel_call, sel_scans, sel_llm_calls>>
agentVars == <<tasks, max_in_flight, message_history>>
synthVars == <<agent_results, synth_call, synthesis>>
engineVars == <<model_name, threads>>
\* the inputs of a request, and the state its handlers leave as they found it
reqVars == <<entry, query, fallback_model, user_id, engineVars, deletion>>

callVars == <<agentVars, synthVars, error, final>>
streamVars == <<agent_type, producer, elapsed, late_chunk, out, streamed, produced, events>>

vars == <<reqVars, pc, selVars, callVars, streamVars>>

----------------------------------------------------------------------------
(* Bounds of the model *)

\* longest query, in words of Vocabulary
MaxWords == 2
\* longest selection reply of the generation service, in words of ReplyWords
MaxReplyWords == 2
\* most documents one user has in one collection of the vector store
MaxDocs == 6
\* most threads that call generate_response on one engine at a time
MaxThreads == 2
\* deepest nesting of generate_response calls in one thread
MaxDepth == 2
\* longest list of agent results given to the synthesizer called on its own
MaxResults == 2
\* longest streamed query, in words of Vocabulary
MaxStreamWords == 1
\* most tokens the generation service streams for one request
MaxChunks == 8

----------------------------------------------------------------------------
(* Python str operations *)

UpperAlpha == <<"A", "B", "C", "D", "E", "F", "G", "H", "I", "J", "K", "L", "M", "N", "O", "P", "Q", "R", "S", "T", "U", "V", "W", "X", "Y", "Z">>
LowerAlpha == <<"a", "b", "c", "d", "e", "f", "g", "h", "i", "j", "k", "l", "m", "n", "o", "p", "q", "r", "s", "t", "u", "v", "w", "x", "y", "z">>

\* str.lower() on one character
LowerChar(c) ==
    IF \E i \in DOMAIN UpperAlpha : UpperAlpha[i] = c
    THEN LowerAlpha[CHOOSE i \in DOMAIN UpperAlpha : UpperAlpha[i] = c]
    ELSE c

\* str.lower()
Lower(s) == [i \in DOMAIN s |-> LowerChar(s[i])]

\* `kw in s` for strings: substring search
Contains(s, kw) ==
    \E i \in 1..(Len(s) - Len(kw) + 1) : SubSeq(s, i, i + Len(kw) - 1) = kw

\* any(word in s for word in kws)
AnyIn(s, kws) == \E kw \in kws : Contains(s, kw)

\* sep.join(words)
RECURSIVE Join(_, _)
Join(words, sep) ==
    IF words = <<>> THEN <<>>
    ELSE IF Len(words) = 1 THEN words[1]
    ELSE words[1] \o sep \o Join(Tail(words), sep)

\* all sequences over S of length lo..hi
SeqsOf(S, lo, hi) == UNION {[1..n -> S] : n \in lo..hi}

\* the orderings of a finite set (list(set) yields its elements in hash order)
Orderings(S) ==
    {f \in [1..Cardinality(S) -> S] : \A i, j \in DOMAIN f : i # j => f[i] # f[j]}

\* the elements of a list, as a set
Range(f) == {f[i] : i \in DOMAIN f}

----------------------------------------------------------------------------
(* AgentRole *)

DNA_ANALYST == "dna_analyst"
MICROBIOME_EXPERT == "microbiome_expert"
BIOMARKER_INTERPRETER == "biomarker_interpreter"
CORRELATION_FINDER == "correlation_finder"
RECOMMENDATION_ENGINE == "recommendation_engine"
ORCHESTRATOR == "orchestrator"

\* `for role in AgentRole` of simple_ai_agents.py, in definition order
AgentRole ==
    <<DNA_ANALYST, MICROBIOME_EXPERT, BIOMARKER_INTERPRETER,
      CORRELATION_FINDER, RECOMMENDATION_ENGINE, ORCHESTRATOR>>

\* role.value as text
RoleText(r) ==
    CASE r = DNA_ANALYST -> <<"d", "n", "a", "_", "a", "n", "a", "l", "y", "s", "t">>
      [] r = MICROBIOME_EXPERT -> <<"m", "i", "c", "r", "o", "b", "i", "o", "m", "e", "_", "e", "x", "p", "e", "r", "t">>
      [] r = BIOMARKER_INTERPRETER -> <<"b", "i", "o", "m", "a", "r", "k", "e", "r", "_", "i", "n", "t", "e", "r", "p", "r", "e", "t", "e", "r">>
      [] r = CORRELATION_FINDER -> <<"c", "o", "r", "r", "e", "l", "a", "t", "i", "o", "n", "_", "f", "i", "n", "d", "e", "r">>
      [] r = RECOMMENDATION_ENGINE -> <<"r", "e", "c", "o", "m", "m", "e", "n", "d", "a", "t", "i", "o", "n", "_", "e", "n", "g", "i", "n", "e">>
      [] r = ORCHESTRATOR -> <<"o", "r", "c", "h", "e", "s", "t", "r", "a", "t", "o", "r">>

\* the keys of orchestrator.agents: one agent per role except the orchestrator
Agents ==
    {DNA_ANALYST, MICROBIOME_EXPERT, BIOMARKER_INTERPRETER,
     CORRELATION_FINDER, RECOMMENDATION_ENGINE}

\* the default role list of both selectors
DefaultAgents == <<CORRELATION_FINDER, RECOMMENDATION_ENGINE>>

----------------------------------------------------------------------------
(* Queries *)

\* words a query is made of
Vocabulary ==
    { <<"D", "N", "A">>, <<"v", "a", "r", "i", "a", "n", "t">>, <<"g", "u", "t">>, <<"h", "i", "g", "h">>, <<"H", "e", "l", "l", "o">>, <<"s", "l", "e", "e", "p">>,
      <<"b", "l", "o", "o", "d">>, <<"t", "e", "s", "t">> }

Queries == {Join(ws, <<" ">>) : ws \in SeqsOf(Vocabulary, 1, MaxWords)}

\* the queries of the requests whose control flow does not read the query
Tasks == { <<"h", "i", "g", "h", " ", "v", "a", "r", "i", "a", "n", "t">>, <<"s", "l", "e", "e", "p">> }

----------------------------------------------------------------------------
(* SimpleOllamaEngine.generate_response *)

PrimaryModel == "llama3.2:latest"
FallbackModel == "phi3:mini"

ErrInvalidResponse == <<"E", "r", "r", "o", "r", ":", " ", "I", "n", "v", "a", "l", "i", "d", " ", "r", "e", "s", "p", "o", "n", "s", "e", " ", "f", "r", "o", "m", " ", "O", "l", "l", "a", "m", "a", ":", " ", "E", "x", "p", "e", "c", "t", "i", "n", "g", " ", "v", "a", "l", "u", "e", ":", " ", "l", "i", "n", "e", " ", "1", " ", "c", "o", "l", "u", "m", "n", " ", "1", " ", "(", "c", "h", "a", "r", " ", "0", ")">>
ErrHTTP == <<"E", "r", "r", "o", "r", " ", "g", "e", "n", "e", "r", "a", "t", "i", "n", "g", " ", "r", "e", "s", "p", "o", "n", "s", "e", ":", " ", "E", "r", "r", "o", "r", ":", " ", "H", "T", "T", "P", " ", "4", "0", "4", " ", "-", " ", "m", "o", "d", "e", "l", " ", "n", "o", "t", " ", "f", "o", "u", "n", "d">>
ErrConnTimeout == <<"E", "r", "r", "o", "r", ":", " ", "C", "o", "n", "n", "e", "c", "t", "i", "o", "n", " ", "t", "o", " ", "O", "l", "l", "a", "m", "a", " ", "t", "i", "m", "e", "d", " ", "o", "u", "t", " ", "a", "f", "t", "e", "r", " ", "1", "2", "0", " ", "s", "e", "c", "o", "n", "d", "s">>
ErrRefused == <<"E", "r", "r", "o", "r", ":", " ", "C", "o", "n", "n", "e", "c", "t", "i", "o", "n", " ", "r", "e", "f", "u", "s", "e", "d", ".", " ", "I", "s", " ", "O", "l", "l", "a", "m", "a", " ", "r", "u", "n", "n", "i", "n", "g", " ", "o", "n", " ", "l", "o", "c", "a", "l", "h", "o", "s", "t", ":", "1", "1", "4", "3", "4", "?">>
ErrOther == <<"E", "r", "r", "o", "r", ":", " ", "[", "E", "r", "r", "n", "o", " ", "1", "0", "4", "]", " ", "C", "o", "n", "n", "e", "c", "t", "i", "o", "n", " ", "r", "e", "s", "e", "t", " ", "b", "y", " ", "p", "e", "e", "r">>

\* how one HTTP exchange with Ollama can end
FailureKinds == {"http_error", "bad_json", "sock_timeout", "refused", "exception"}

\* an exchange that fails in the way `k`
Fail(k) == [kind |-> k, text |-> <<>>]

\* an exchange that answers 200 with the generated text `t`
Ok(t) == [kind |-> "ok", text |-> t]

\* The exchanges of one generate_response call: the request to the current
\* model and, should that answer non-200 and a fallback model differ, the
\* request to the fallback model.
Exchanges(texts) ==
    {<<Ok(t)>> : t \in texts}
    \cup {<<Fail(k)>> : k \in FailureKinds \ {"http_error"}}
    \cup {<<Fail("http_error"), Ok(t)>> : t \in texts}
    \cup {<<Fail("http_error"), Fail(k)>> : k \in FailureKinds}

\* a generate_response that hands back the exception's own message
generate_response_bare_message(model, fallback, exs) ==
    LET ex == exs[Len(exs)] IN
    CASE ex.kind = "ok" -> ex.text
      [] ex.kind = "bad_json" -> ErrInvalidResponse
      [] ex.kind = "http_error" -> ErrHTTP
      [] ex.kind = "sock_timeout" -> ErrConnTimeout
      [] ex.kind = "refused" -> ErrRefused
      [] ex.kind = "exception" -> <<"[", "E", "r", "r", "n", "o", " ", "1", "0", "4", "]", " ", "C", "o", "n", "n", "e", "c", "t", "i", "o", "n", " ", "r", "e", "s", "e", "t", " ", "b", "y", " ", "p", "e", "e", "r">>

\* generate_response: the text returned when the exchanges end as `exs`,
\* with engine.model_name = model and engine.fallback_model = fallback.
RECURSIVE generate_response(_, _, _)
generate_response(model, fallback, exs) ==
    LET ex == Head(exs) IN
    CASE ex.kind = "ok" -> ex.text
      [] ex.kind = "bad_json" -> ErrInvalidResponse
      [] ex.kind = "http_error" ->
            IF model # fallback /\ Len(exs) > 1
            THEN generate_response(fallback, fallback, Tail(exs))
            ELSE ErrHTTP
      [] ex.kind = "sock_timeout" -> ErrConnTimeout
      [] ex.kind = "refused" -> ErrRefused
      [] ex.kind = "exception" -> ErrOther

----------------------------------------------------------------------------
(* SimpleAIOrchestrator._select_relevant_agents *)

dna_keywords ==
    { <<"d", "n", "a">>, <<"g", "e", "n", "e", "t", "i", "c">>, <<"g", "e", "n", "e">>, <<"m", "u", "t", "a", "t", "i", "o", "n">>, <<"v", "a", "r", "i", "a", "n", "t">>, <<"g", "e", "n", "o", "m", "e">> }
microbiome_keywords ==
    { <<"m", "i", "c", "r", "o", "b", "i", "o", "m", "e">>, <<"g", "u", "t">>, <<"b", "a", "c", "t", "e", "r", "i", "a">>, <<"p", "r", "o", "b", "i", "o", "t", "i", "c">>, <<"p", "r", "e", "b", "i", "o", "t", "i", "c">>, <<"d", "i", "g", "e", "s", "t">> }
biomarker_keywords ==
    { <<"b", "l", "o", "o", "d", " ", "t", "e", "s", "t">>, <<"l", "a", "b", " ", "r", "e", "s", "u", "l", "t">>, <<"b", "i", "o", "m", "a", "r", "k", "e", "r">>, <<"l", "e", "v", "e", "l">>, <<"h", "i", "g", "h">>, <<"l", "o", "w">>, <<"t", "e", "s", "t", " ", "r", "e", "s", "u", "l", "t">> }

\* the keyword tier's selected_agents set, before the two roles are added
KeywordRolesMissingLower(q) ==
    (IF AnyIn(q, dna_keywords) THEN {DNA_ANALYST} ELSE {})
    \cup (IF AnyIn(q, microbiome_keywords) THEN {MICROBIOME_EXPERT} ELSE {})
    \cup (IF AnyIn(q, biomarker_keywords) THEN {BIOMARKER_INTERPRETER} ELSE {})

KeywordRoles(q) ==
    LET query_lower == Lower(q) IN
    (IF AnyIn(query_lower, dna_keywords) THEN {DNA_ANALYST} ELSE {})
    \cup (IF AnyIn(query_lower, microbiome_keywords) THEN {MICROBIOME_EXPERT} ELSE {})
    \cup (IF AnyIn(query_lower, biomarker_keywords) THEN {BIOMARKER_INTERPRETER} ELSE {})

\* a keyword tier that returns the matched roles alone
KeywordSelectionBare(q) == KeywordRoles(q)

\* selected_agents after the keyword tier: the matched roles plus the two
\* cross-domain roles, when any role matched
KeywordSelection(q) ==
    IF KeywordRoles(q) # {}
    THEN KeywordRoles(q) \cup {CORRELATION_FINDER, RECOMMENDATION_ENGINE}
    ELSE {}

\* words the generation service's selection reply is made of
ReplyWords ==
    { <<"d", "n", "a", "_", "a", "n", "a", "l", "y", "s", "t">>, <<"M", "i", "c", "r", "o", "b", "i", "o", "m", "e", "_", "E", "x", "p", "e", "r", "t">>, <<"c", "o", "r", "r", "e", "l", "a", "t", "i", "o", "n", "_", "f", "i", "n", "d", "e", "r">>,
      <<"o", "r", "c", "h", "e", "s", "t", "r", "a", "t", "o", "r">>, <<"n", "o", "n", "e">> }

\* the selection replies of the generation service
SelReplies == {Join(ws, <<",", " ">>) : ws \in SeqsOf(ReplyWords, 0, MaxReplyWords)}

\* [role.value for role in AgentRole if role.value in response.lower()]
RECURSIVE ParseFrom(_, _)
ParseFrom(response_lower, i) ==
    IF i > Len(AgentRole) THEN <<>>
    ELSE (IF Contains(response_lower, RoleText(AgentRole[i]))
          THEN <<AgentRole[i]>> ELSE <<>>)
         \o ParseFrom(response_lower, i + 1)

\* a fallback tier that falls back to recommendation_engine alone
ParseSelectionShortDefault(response) ==
    LET selected == ParseFrom(Lower(response), 1) IN
    IF selected # <<>>
    THEN selected \o <<CORRELATION_FINDER, RECOMMENDATION_ENGINE>>
    ELSE <<RECOMMENDATION_ENGINE>>

\* the fallback tier's result for the reply `response`
ParseSelection(response) ==
    LET selected == ParseFrom(Lower(response), 1) IN
    IF selected # <<>>
    THEN selected \o <<CORRELATION_FINDER, RECOMMENDATION_ENGINE>>
    ELSE DefaultAgents

\* the values a selector call hands back
NoList == [kind |-> "none", roles |-> <<>>]
List(rs) == [kind |-> "list", roles |-> rs]

\* how the selector's generation call ended: "none" before it ends,
\* "timeout", or the way its last HTTP exchange ended
NoCall == [outcome |-> "none", text |-> <<>>]
Call(o, t) == [outcome |-> o, text |-> t]

SimpleSelector == entry \in {"select_simple", "stream_query", "stream_chat"}
LegacySelector == entry \in {"select_legacy", "process_health_query"}

\* _select_relevant_agents up to its first suspension: the keyword scan, the
\* return of list(selected_agents) if a keyword matched, else the start of
\* the generation call under asyncio.wait_for(..., timeout=3.0)
SelectKeywordTier ==
    /\ SimpleSelector
    /\ pc = "select"
    /\ sel_scans' = sel_scans + 1
    /\ IF KeywordSelection(query) # {}
       THEN /\ \E order \in Orderings(KeywordSelection(query)) :
                   agent_types' = List(order)
            /\ pc' = "selected"
            /\ UNCHANGED sel_llm_calls
       ELSE /\ pc' = "select_llm"
            /\ sel_llm_calls' = sel_llm_calls + 1
            /\ UNCHANGED agent_types
    /\ UNCHANGED <<reqVars, sel_call, agentVars, synthVars, error, final, streamVars>>

\* the generation call returned within 3 s: parse its text
SelectFallbackReply ==
    /\ pc = "select_llm"
    /\ \E exs \in Exchanges(SelReplies) :
          LET response == generate_response(PrimaryModel, fallback_model, exs) IN
          /\ sel_call' = Call(exs[Len(exs)].kind, response)
          /\ agent_types' = List(ParseSelection(response))
    /\ pc' = "selected"
    /\ UNCHANGED <<reqVars, sel_scans, sel_llm_calls, agentVars, synthVars, error, final, streamVars>>

\* a generation call awaited without a deadline
SelectFallbackNoDeadline ==
    /\ pc = "select_llm"
    /\ FALSE
    /\ UNCHANGED vars

\* asyncio.wait_for raised TimeoutError after 3 s: the default list
SelectFallbackTimeout ==
    /\ pc = "select_llm"
    /\ sel_call' = Call("timeout", <<>>)
    /\ agent_types' = List(DefaultAgents)
    /\ pc' = "selected"
    /\ UNCHANGED <<reqVars, sel_scans, sel_llm_calls, agentVars, synthVars, error, final, streamVars>>

----------------------------------------------------------------------------
(* LocalHealthLLM.generate_response *)

max_retries == 2

\* what a generate_response call hands back: a text, None, or RuntimeError
Returned(t) == [kind |-> "text", text |-> t]
ReturnedNone == [kind |-> "none", text |-> <<>>]
Raise(msg) == [kind |-> "raise", text |-> msg]

RetriesExhausted == <<"F", "a", "i", "l", "e", "d", " ", "t", "o", " ", "g", "e", "n", "e", "r", "a", "t", "e", " ", "r", "e", "s", "p", "o", "n", "s", "e", " ", "a", "f", "t", "e", "r", " ", "2", " ", "r", "e", "t", "r", "i", "e", "s">>

\* The ollama.generate attempts of one call: failures, then maybe a success.
Attempts(texts) ==
    {fails \o <<Ok(t)>> :
        fails \in SeqsOf({Fail("exception")}, 0, max_retries), t \in texts}
    \cup {[i \in 1..(max_retries + 1) |-> Fail("exception")]}

\* what the loop hands back after an attempt with model m followed by r:
\* r, with m put before the models r tried
Trying(m, r) ==
    [kind |-> r.kind, text |-> r.text,
     tried |-> <<m>> \o (IF "tried" \in DOMAIN r THEN r.tried ELSE <<>>)]

\* a retry loop that goes back to the primary model for its last attempt
RECURSIVE RetryLoopBackToPrimary(_, _, _, _, _)
RetryLoopBackToPrimary(model, fallback, model_to_use, retry_count, attempts) ==
    IF retry_count > max_retries THEN ReturnedNone
    ELSE IF attempts[retry_count + 1].kind = "ok"
    THEN Trying(model_to_use, Returned(attempts[retry_count + 1].text))
    ELSE IF model_to_use = model /\ fallback # ""
    THEN Trying(model_to_use,
                RetryLoopBackToPrimary(model, fallback, fallback, retry_count + 1, attempts))
    ELSE IF retry_count + 1 <= max_retries
    THEN Trying(model_to_use,
                RetryLoopBackToPrimary(model, fallback, model, retry_count + 1, attempts))
    ELSE Trying(model_to_use, Raise(RetriesExhausted))

\* the retry loop, entered with model_to_use and retry_count; the result
\* lists the model of each ollama.generate attempt
RECURSIVE RetryLoop(_, _, _, _, _)
RetryLoop(model, fallback, model_to_use, retry_count, attempts) ==
    IF retry_count > max_retries THEN ReturnedNone
    ELSE IF attempts[retry_count + 1].kind = "ok"
    THEN Trying(model_to_use, Returned(attempts[retry_count + 1].text))
    ELSE IF model_to_use = model /\ fallback # ""
    THEN Trying(model_to_use,
                RetryLoop(model, fallback, fallback, retry_count + 1, attempts))
    ELSE IF retry_count + 1 <= max_retries
    THEN Trying(model_to_use,
                RetryLoop(model, fallback, model_to_use, retry_count + 1, attempts))
    ELSE Trying(model_to_use, Raise(RetriesExhausted))

local_generate_response(model, fallback, attempts) ==
    RetryLoop(model, fallback, model, 0, attempts)

----------------------------------------------------------------------------
(* HealthAIOrchestrator._select_relevant_agents *)

\* names the generation service may put in its JSON list
ReplyNames ==
    {DNA_ANALYST, MICROBIOME_EXPERT, RECOMMENDATION_ENGINE, ORCHESTRATOR,
     "nutrition_coach"}

\* The selection replies of the generation service, as json.loads reads
\* them: a list of names, another JSON value, or text that is not JSON.
JsonReplies ==
    {[json |-> "list", items |-> ns] : ns \in SeqsOf(ReplyNames, 0, MaxReplyWords)}
    \cup {[json |-> "object", items |-> <<>>], [json |-> "invalid", items |-> <<>>]}

\* the selector's result for what generate_response handed back
JsonSelection(got) ==
    IF got.kind = "text" /\ got.text.json = "list"
    THEN got.text.items
    ELSE DefaultAgents

\* _select_relevant_agents of ai_agents.py: one synchronous generation call,
\* its reply parsed as a JSON list; no keyword tier
SelectByModel ==
    /\ LegacySelector
    /\ pc = "select"
    /\ \E attempts \in Attempts(JsonReplies) :
          LET got == local_generate_response(PrimaryModel, fallback_model, attempts) IN
          /\ sel_call' = Call(got.kind, <<>>)
          /\ agent_types' = List(JsonSelection(got))
    /\ sel_llm_calls' = sel_llm_calls + 1
    /\ pc' = "selected"
    /\ UNCHANGED <<reqVars, sel_scans, agentVars, synthVars, error, final, streamVars>>

----------------------------------------------------------------------------
(* SimpleHealthAgent.process and HealthAIAgent.process *)

\* Python's None where a text is expected
PyNone == <<"None">>

\* a confidence whose bands include their upper ends
calculate_confidence_inclusive(response) ==
    IF response = PyNone \/ response = <<>> THEN 0
    ELSE IF Len(response) <= 50 THEN 3
    ELSE IF Len(response) <= 200 THEN 6
    ELSE 8

\* _calculate_confidence, in tenths
calculate_confidence(response) ==
    IF response = PyNone \/ response = <<>> THEN 0
    ELSE IF Len(response) < 50 THEN 3
    ELSE IF Len(response) < 200 THEN 6
    ELSE 8

\* the dict an agent returns from its try block
Success(role, response, sources) ==
    [agent |-> role, response |-> response,
     confidence |-> calculate_confidence(response),
     has_error |-> FALSE, error |-> <<>>, sources |-> sources]

\* the dict an agent returns from its except block (confidence 0.1)
Failure(role, response, err) ==
    [agent |-> role, response |-> response, confidence |-> 1,
     has_error |-> TRUE, error |-> err, sources |-> <<>>]

\* SimpleHealthAgent.process, given what generate_response handed back
simple_process(role, task, got) ==
    IF got.kind = "raise"
    THEN Failure(role,
                 <<"I", " ", "w", "a", "s", " ", "u", "n", "a", "b", "l", "e", " ", "t", "o", " ", "p", "r", "o", "v", "i", "d", "e", " ", "i", "n", "s", "i", "g", "h", "t", "s", " ", "o", "n", " ">> \o task
                     \o <<" ", "d", "u", "e", " ", "t", "o", " ", "a", "n", " ", "e", "r", "r", "o", "r", ".">>,
                 got.text)
    ELSE Success(role, got.text, <<>>)

\* the users with documents of their own, and no user_id in the context
Tenants == {"alice", "bob"}
NoUser == "no user_id"

\* context.get('user_id', 'default')
context_user_id == IF user_id = NoUser THEN "default" ELSE user_id

\* the keys of HealthVectorStore.collections
Collections ==
    {"dna", "microbiome", "biomarkers", "correlations", "recommendations",
     "chat_memory"}

\* collection_map.get(self.role, ['correlations'])
collection_map(role) ==
    CASE role = DNA_ANALYST -> <<"dna">>
      [] role = MICROBIOME_EXPERT -> <<"microbiome">>
      [] role = BIOMARKER_INTERPRETER -> <<"biomarkers">>
      [] role = CORRELATION_FINDER ->
            <<"dna", "microbiome", "biomarkers", "correlations">>
      [] role = RECOMMENDATION_ENGINE -> <<"recommendations", "correlations">>
      [] OTHER -> <<"correlations">>

\* a stored document: its collection, the user_id of its metadata and its
\* distance from the query (the k-th nearest of its owner in its collection)
Doc(c, t, k) == [collection |-> c, user_id |-> t, distance |-> k]

\* a vector store in which every user, 'default' included, has per documents
\* in every collection
StoreDocs(per) ==
    {Doc(c, t, k) : c \in Collections, t \in Tenants \cup {"default"}, k \in 1..per}

\* the documents of a set, nearest first
RECURSIVE ByDistance(_)
ByDistance(S) ==
    IF S = {} THEN <<>>
    ELSE LET d == CHOOSE x \in S : \A y \in S : x.distance <= y.distance
         IN <<d>> \o ByDistance(S \ {d})

\* collection.query(n_results=..., where={"user_id": ...}) with no user filter
collection_query_unfiltered(store, name, where_user_id, n_results) ==
    LET hits == ByDistance({d \in store : d.collection = name})
    IN SubSeq(hits, 1, IF Len(hits) < n_results THEN Len(hits) ELSE n_results)

\* collection.query(n_results=..., where={"user_id": ...}): the n_results
\* nearest documents of the collection whose metadata carry that user_id
collection_query(store, name, where_user_id, n_results) ==
    LET hits == ByDistance({d \in store :
                               d.collection = name /\ d.user_id = where_user_id})
    IN SubSeq(hits, 1, IF Len(hits) < n_results THEN Len(hits) ELSE n_results)

\* sorted(all_results, key=distance): a stable sort
RECURSIVE SortedByDistance(_)
SortedByDistance(rs) ==
    IF rs = <<>> THEN <<>>
    ELSE LET i == CHOOSE j \in DOMAIN rs :
                     /\ \A k \in DOMAIN rs : rs[j].distance <= rs[k].distance
                     /\ \A k \in 1..(j - 1) : rs[j].distance < rs[k].distance
         IN <<rs[i]>> \o SortedByDistance(SubSeq(rs, 1, i - 1) \o SubSeq(rs, i + 1, Len(rs)))

\* the loop of semantic_search over collection_names: a collection whose
\* query raises (down) is skipped
RECURSIVE all_results(_, _, _, _, _)
all_results(store, down, names, uid, k) ==
    IF names = <<>> THEN <<>>
    ELSE (IF Head(names) \in Collections \ down
          THEN collection_query(store, Head(names), uid, k)
          ELSE <<>>)
         \o all_results(store, down, Tail(names), uid, k)

\* HealthVectorStore.semantic_search
semantic_search(store, down, collection_names, uid, k) ==
    SortedByDistance(all_results(store, down, collection_names, uid, k))

\* top_k of the call in _search_relevant_data
top_k == 5

\* the collections whose query can fail during a search
Outages == {{}, {"correlations"}}

\* how a retrieval can go for an agent: no store configured, the search
\* raising, or a search of a store with per documents per user and collection
Retrievals ==
    {[kind |-> "no_store", per |-> 0, down |-> {}],
     [kind |-> "raise", per |-> 0, down |-> {}]}
    \cup {[kind |-> "ok", per |-> n, down |-> o] : n \in 0..MaxDocs, o \in Outages}

\* the request _search_relevant_data sends to the store
search_request(role) ==
    [collection_names |-> collection_map(role), user_id |-> context_user_id]

NoRequest == [collection_names |-> <<>>, user_id |-> "none"]

\* _search_relevant_data: the documents found, [] without a store or on error
search_relevant_data(role, ret) ==
    IF ret.kind = "ok"
    THEN semantic_search(StoreDocs(ret.per), ret.down,
                         search_request(role).collection_names,
                         search_request(role).user_id, top_k)
    ELSE <<>>

\* search_results[:3]
FirstThree(docs) == SubSeq(docs, 1, IF Len(docs) < 3 THEN Len(docs) ELSE 3)

\* A prompt is modelled by whose instructions head it and the documents
\* listed in it.  The f-string full_prompt of both process(): the role's
\* system_prompt and the first three documents found
full_prompt(role, search_results) ==
    [instructions |-> {role}, data |-> FirstThree(search_results)]

\* LocalHealthLLM.create_health_prompt: the fixed heading of the engine and
\* every document of context
create_health_prompt(context) ==
    [instructions |-> {"health AI assistant"}, data |-> context]

\* SimpleOllamaEngine._create_prompt: the fixed heading of the engine, the
\* query and every document of context
create_prompt(query_prompt, context) ==
    [instructions |-> {"health assistant"} \cup query_prompt.instructions,
     data |-> query_prompt.data \o context]

NoPrompt == [instructions |-> {}, data |-> <<>>]

\* the prompt HealthAIAgent.process has the engine send: the task and all
\* search results go to generate_response, full_prompt is left unused
legacy_prompt(role, search_results) == create_health_prompt(search_results)

\* the prompt SimpleHealthAgent.process has the engine send: full_prompt is
\* the query, the context is empty
simple_prompt(role) == create_prompt(full_prompt(role, <<>>), <<>>)

\* HealthAIAgent.process, given the documents found and what
\* generate_response handed back
legacy_process(role, task, search_results, got) ==
    CASE got.kind = "raise" ->
            Failure(role,
                    <<"U", "n", "a", "b", "l", "e", " ", "t", "o", " ", "a", "n", "a", "l", "y", "z", "e", " ">> \o RoleText(role) \o <<" ", "d", "a", "t", "a", ":", " ">>
                        \o got.text,
                    got.text)
      [] got.kind = "none" -> Success(role, PyNone, FirstThree(search_results))
      [] got.kind = "text" -> Success(role, got.text, FirstThree(search_results))

\* a text of n characters
Text(n) == [i \in 1..n |-> "x"]

\* the texts the generation service answers an agent or the synthesizer with
GenTexts == {Text(n) : n \in {0, 1, 49, 50, 199, 200}}

\* the same for the requests that run whole pipelines
FlowTexts == {Text(1), Text(50)}

SimpleAgents == entry \in {"agent_simple", "process_query"}
LegacyAgents == entry \in {"agent_legacy", "process_health_query"}
Pipeline == entry \in {"process_query", "process_health_query"}

\* an agent coroutine that has not run yet
Pending(role) ==
    [role |-> role, st |-> "pending", ret |-> "none",
     search |-> NoRequest, docs |-> <<>>, prompt |-> NoPrompt, tried |-> <<>>,
     gen |-> "none", result |-> Failure(role, <<>>, <<>>)]

Running(ts) == {i \in DOMAIN ts : ts[i].st = "running"}

\* The event loop runs the awaited coroutines in the order they were
\* handed to it, and a coroutine keeps the loop until it suspends.  An
\* agent's process() runs up to its generation call: the retrieval is done,
\* the prompt built, the request sent.
AgentStart(i) ==
    /\ pc = "gather"
    /\ i \in DOMAIN tasks
    /\ tasks[i].st = "pending"
    /\ Running(tasks) = {}
    /\ \A j \in 1..(i - 1) : tasks[j].st = "done"
    /\ \E ret \in IF SimpleAgents THEN {r \in Retrievals : r.kind = "no_store"}
                  ELSE IF Pipeline
                       THEN {r \in Retrievals :
                                r.kind = "raise" \/ (r.per = MaxDocs /\ r.down = {})}
                  ELSE Retrievals :
          LET role == tasks[i].role
              search_results == search_relevant_data(role, ret)
          IN
          tasks' = [tasks EXCEPT
                       ![i].st = "running",
                       ![i].ret = ret.kind,
                       ![i].search = IF ret.kind = "no_store" THEN NoRequest
                                     ELSE search_request(role),
                       ![i].docs = search_results,
                       ![i].prompt = IF SimpleAgents THEN simple_prompt(role)
                                     ELSE legacy_prompt(role, search_results)]
    /\ max_in_flight' =
          IF Cardinality(Running(tasks')) > max_in_flight
          THEN Cardinality(Running(tasks')) ELSE max_in_flight
    /\ UNCHANGED <<reqVars, pc, selVars, message_history, synthVars, error, final, streamVars>>

\* the generation call of SimpleHealthAgent.process returns: the agent
\* builds its result and its coroutine ends
SimpleAgentFinish(i) ==
    /\ SimpleAgents
    /\ i \in DOMAIN tasks
    /\ tasks[i].st = "running"
    /\ \E exs \in Exchanges(GenTexts) :
          LET got == Returned(generate_response(PrimaryModel, fallback_model, exs)) IN
          tasks' = [tasks EXCEPT ![i].st = "done", ![i].gen = exs[Len(exs)].kind,
                                 ![i].result = simple_process(tasks[i].role, query, got)]
    /\ UNCHANGED <<reqVars, pc, selVars, max_in_flight, message_history,
                   synthVars, error, final, streamVars>>

\* a HealthAIAgent that stores a message whether or not the call raised
LegacyAgentFinishAlwaysStores(i) ==
    /\ LegacyAgents
    /\ i \in DOMAIN tasks
    /\ tasks[i].st = "running"
    /\ \E attempts \in Attempts(IF Pipeline THEN FlowTexts ELSE GenTexts) :
          LET got == local_generate_response(PrimaryModel, fallback_model, attempts)
          IN
          /\ tasks' = [tasks EXCEPT ![i].st = "done", ![i].gen = got.kind,
                           ![i].tried = IF Pipeline THEN <<>> ELSE got.tried,
                           ![i].result = legacy_process(tasks[i].role, query, tasks[i].docs, got)]
          /\ message_history' = [message_history EXCEPT ![tasks[i].role] = @ + 1]
    /\ UNCHANGED <<reqVars, pc, selVars, max_in_flight, synthVars, error, final, streamVars>>

\* the generation call of HealthAIAgent.process returns or raises: the
\* agent stores the message, builds its result and its coroutine ends
LegacyAgentFinish(i) ==
    /\ LegacyAgents
    /\ i \in DOMAIN tasks
    /\ tasks[i].st = "running"
    /\ \E attempts \in Attempts(IF Pipeline THEN FlowTexts ELSE GenTexts) :
          LET got == local_generate_response(PrimaryModel, fallback_model, attempts)
          IN
          /\ tasks' = [tasks EXCEPT ![i].st = "done", ![i].gen = got.kind,
                           ![i].tried = IF Pipeline THEN <<>> ELSE got.tried,
                           ![i].result = legacy_process(tasks[i].role, query, tasks[i].docs, got)]
          /\ message_history' =
                IF got.kind = "raise" THEN message_history
                ELSE [message_history EXCEPT ![tasks[i].role] = @ + 1]
    /\ UNCHANGED <<reqVars, pc, selVars, max_in_flight, synthVars, error, final, streamVars>>

----------------------------------------------------------------------------
(* _synthesize_responses (the same code in both orchestrators) *)

NoSynthesis == [response |-> <<>>, source_agents |-> <<>>, sourced |-> FALSE]

NotEnoughInformation == <<"I", " ", "d", "o", "n", "'", "t", " ", "h", "a", "v", "e", " ", "e", "n", "o", "u", "g", "h", " ", "i", "n", "f", "o", "r", "m", "a", "t", "i", "o", "n", " ", "t", "o", " ", "a", "n", "s", "w", "e", "r", " ", "y", "o", "u", "r", " ", "h", "e", "a", "l", "t", "h", " ", "q", "u", "e", "s", "t", "i", "o", "n", ".">>
TroubleSynthesizing == <<"I", " ", "p", "r", "o", "c", "e", "s", "s", "e", "d", " ", "y", "o", "u", "r", " ", "h", "e", "a", "l", "t", "h", " ", "q", "u", "e", "r", "y", " ", "b", "u", "t", " ", "h", "a", "d", " ", "t", "r", "o", "u", "b", "l", "e", " ", "s", "y", "n", "t", "h", "e", "s", "i", "z", "i", "n", "g", " ", "t", "h", "e", " ", "i", "n", "s", "i", "g", "h", "t", "s", ".">>

\* a role list that credits the orchestrator as well
RolesOfWithOrchestrator(results) ==
    [i \in DOMAIN results |-> results[i].agent] \o <<ORCHESTRATOR>>

\* [r.get('agent') for r in agent_results]
RolesOf(results) == [i \in DOMAIN results |-> results[i].agent]

\* the except block: the first recommendation_engine result's response, or
\* the fixed text
SynthesisFallback(results) ==
    LET hits == {i \in DOMAIN results : results[i].agent = RECOMMENDATION_ENGINE} IN
    IF hits # {}
    THEN [response |-> results[CHOOSE i \in hits : \A j \in hits : i <= j].response,
          source_agents |-> <<>>, sourced |-> FALSE]
    ELSE [response |-> TroubleSynthesizing, source_agents |-> <<>>, sourced |-> FALSE]

\* _synthesize_responses for a non-empty list, given what generate_response
\* handed back
synthesize_responses(results, got) ==
    IF got.kind = "raise" THEN SynthesisFallback(results)
    ELSE [response |-> IF got.kind = "none" THEN PyNone ELSE got.text,
          source_agents |-> RolesOf(results), sourced |-> TRUE]

SimpleSynthesizer == entry \in {"synth_simple", "process_query"}
LegacySynthesizer == entry \in {"synth_legacy", "process_health_query"}

\* a synthesizer without the guard for the empty list
SynthesizeNothingUnguarded ==
    /\ pc = "synthesize"
    /\ agent_results = <<>>
    /\ \E exs \in Exchanges(FlowTexts) :
          LET final_response == generate_response(PrimaryModel, fallback_model, exs) IN
          /\ synth_call' = Call(exs[Len(exs)].kind, final_response)
          /\ synthesis' = synthesize_responses(agent_results, Returned(final_response))
    /\ pc' = "respond"
    /\ UNCHANGED <<reqVars, selVars, agentVars, agent_results, error, final, streamVars>>

\* an empty list: the fixed text, and no generation call
SynthesizeNothing ==
    /\ pc = "synthesize"
    /\ agent_results = <<>>
    /\ synthesis' = [response |-> NotEnoughInformation, source_agents |-> <<>>,
                     sourced |-> FALSE]
    /\ pc' = "respond"
    /\ UNCHANGED <<reqVars, selVars, agentVars, agent_results, synth_call, error, final, streamVars>>

\* SimpleAIOrchestrator._synthesize_responses over SimpleOllamaEngine
SimpleSynthesize ==
    /\ SimpleSynthesizer
    /\ pc = "synthesize"
    /\ agent_results # <<>>
    /\ \E exs \in Exchanges(FlowTexts) :
          LET final_response == generate_response(PrimaryModel, fallback_model, exs) IN
          /\ synth_call' = Call(exs[Len(exs)].kind, final_response)
          /\ synthesis' = synthesize_responses(agent_results, Returned(final_response))
    /\ pc' = "respond"
    /\ UNCHANGED <<reqVars, selVars, agentVars, agent_results, error, final, streamVars>>

\* HealthAIOrchestrator._synthesize_responses over LocalHealthLLM
LegacySynthesize ==
    /\ LegacySynthesizer
    /\ pc = "synthesize"
    /\ agent_results # <<>>
    /\ \E attempts \in Attempts(FlowTexts) :
          LET got == local_generate_response(PrimaryModel, fallback_model, attempts) IN
          /\ synth_call' = Call(got.kind, got.text)
          /\ synthesis' = synthesize_responses(agent_results, got)
    /\ pc' = "respond"
    /\ UNCHANGED <<reqVars, selVars, agentVars, agent_results, error, final, streamVars>>

----------------------------------------------------------------------------
(* process_query and process_health_query *)

NoAnswer == [kind |-> "none", content |-> <<>>, agents_used |-> <<>>]

\* process_query's asyncio.to_thread(self._select_relevant_agents, query):
\* the worker thread calls the coroutine function, which makes a coroutine
\* object and runs none of the selector's body; that object is the result.
SelectInThread ==
    /\ entry = "process_query"
    /\ pc = "select"
    /\ agent_types' = [kind |-> "coroutine", roles |-> <<>>]
    /\ pc' = "selected"
    /\ UNCHANGED <<reqVars, sel_call, sel_scans, sel_llm_calls, agentVars,
                   synthVars, error, final, streamVars>>

\* a name the dispatch loop makes a coroutine for: AgentRole(agent_name)
\* does not raise ValueError, and the role is a key of self.agents
Dispatchable(name) == name \in Range(AgentRole) /\ name \in Agents

\* the dispatch loop: one process() coroutine per dispatchable name, in the
\* order of the list; iterating anything but a list raises TypeError
BuildTasks ==
    /\ Pipeline
    /\ pc = "selected"
    /\ IF agent_types.kind = "list"
       THEN /\ tasks' = LET names == SelectSeq(agent_types.roles, Dispatchable)
                        IN [i \in DOMAIN names |-> Pending(names[i])]
            /\ pc' = "gather"
            /\ UNCHANGED error
       ELSE /\ error' = <<"'", "c", "o", "r", "o", "u", "t", "i", "n", "e", "'", " ", "o", "b", "j", "e", "c", "t", " ", "i", "s", " ", "n", "o", "t", " ", "i", "t", "e", "r", "a", "b", "l", "e">>
            /\ pc' = "failed"
            /\ UNCHANGED tasks
    /\ UNCHANGED <<reqVars, selVars, max_in_flight, message_history, synthVars, final, streamVars>>

\* a join that resolves as soon as one coroutine has ended
SomeDone(ts) == \E i \in DOMAIN ts : ts[i].st = "done"

\* asyncio.gather's future resolves: every awaited coroutine has ended
AllDone(ts) == \A i \in DOMAIN ts : ts[i].st = "done"

\* the list asyncio.gather resolves to: the results in the order awaited
GatherResults(ts) == [i \in DOMAIN ts |-> ts[i].result]

\* `agent_results = await asyncio.gather(*agent_tasks)` resumes
GatherReturn ==
    /\ Pipeline
    /\ pc = "gather"
    /\ AllDone(tasks)
    /\ agent_results' = GatherResults(tasks)
    /\ pc' = "synthesize"
    /\ UNCHANGED <<reqVars, selVars, agentVars, synth_call, synthesis, error, final, streamVars>>

\* the entry point returns its answer
Respond ==
    /\ Pipeline
    /\ pc = "respond"
    /\ final' = [kind |-> "answer", content |-> synthesis.response,
                 agents_used |-> RolesOf(agent_results)]
    /\ pc' = "done"
    /\ UNCHANGED <<reqVars, selVars, agentVars, synthVars, error, streamVars>>

\* the entry point's except block returns the apology
RespondError ==
    /\ Pipeline
    /\ pc = "failed"
    /\ final' = [kind |-> "error",
                 content |-> (IF entry = "process_query"
                              THEN <<"I", "'", "m", " ", "s", "o", "r", "r", "y", ",", " ", "b", "u", "t", " ", "I", " ", "e", "n", "c", "o", "u", "n", "t", "e", "r", "e", "d", " ", "a", "n", " ", "e", "r", "r", "o", "r", " ", "p", "r", "o", "c", "e", "s", "s", "i", "n", "g", " ", "y", "o", "u", "r", " ", "q", "u", "e", "r", "y", ":", " ">>
                              ELSE <<"I", " ", "e", "n", "c", "o", "u", "n", "t", "e", "r", "e", "d", " ", "a", "n", " ", "e", "r", "r", "o", "r", " ", "p", "r", "o", "c", "e", "s", "s", "i", "n", "g", " ", "y", "o", "u", "r", " ", "h", "e", "a", "l", "t", "h", " ", "q", "u", "e", "r", "y", ":", " ">>)
                             \o error,
                 agents_used |-> <<>>]
    /\ pc' = "done"
    /\ UNCHANGED <<reqVars, selVars, agentVars, synthVars, error, streamVars>>

----------------------------------------------------------------------------
(* SimpleAIOrchestrator.stream_query *)

\* `timeout = 30.0`, the budget of the whole stream, in seconds
StreamTimeout == 30
\* the timeout of asyncio.wait_for(stream.__anext__(), timeout=5.0)
ChunkTimeout == 5
\* `timeout: int = 120` of stream_response, the socket timeout of a read
SocketTimeout == 120

greetings == { <<"h", "e", "l", "l", "o">>, <<"h", "i">>, <<"h", "e", "y">>, <<"g", "r", "e", "e", "t", "i", "n", "g", "s">> }

\* a greeting check that forgets to lower-case the query
IsGreetingCaseSensitive(q) == AnyIn(q, greetings)

\* any(word in query.lower() for word in ['hello', 'hi', 'hey', 'greetings'])
IsGreeting(q) == AnyIn(Lower(q), greetings)

\* the chunk stream_response yields for a status other than 200
StreamErrHTTP == <<"E", "r", "r", "o", "r", ":", " ", "H", "T", "T", "P", " ", "4", "0", "4", " ", "-", " ", "m", "o", "d", "e", "l", " ", "n", "o", "t", " ", "f", "o", "u", "n", "d">>

TroubleGenerating == <<"\n", "I", "'", "m", " ", "h", "a", "v", "i", "n", "g", " ", "t", "r", "o", "u", "b", "l", "e", " ", "g", "e", "n", "e", "r", "a", "t", "i", "n", "g", " ", "a", " ", "c", "o", "m", "p", "l", "e", "t", "e", " ", "r", "e", "s", "p", "o", "n", "s", "e", " ", "r", "i", "g", "h", "t", " ", "n", "o", "w", ".", " ", "P", "l", "e", "a", "s", "e", " ", "t", "r", "y", " ", "a", "g", "a", "i", "n", " ", "w", "i", "t", "h", " ", "a", " ", "m", "o", "r", "e", " ", "s", "p", "e", "c", "i", "f", "i", "c", " ", "q", "u", "e", "r", "y", ".">>
CannotProcess == <<"I", "'", "m", " ", "s", "o", "r", "r", "y", ",", " ", "I", " ", "c", "a", "n", "n", "o", "t", " ", "p", "r", "o", "c", "e", "s", "s", " ", "y", "o", "u", "r", " ", "h", "e", "a", "l", "t", "h", " ", "q", "u", "e", "r", "y", " ", "a", "t", " ", "t", "h", "i", "s", " ", "t", "i", "m", "e", ".">>

\* the chunk stream_response yields for a line of over 100000 bytes
ErrLongLine == <<"E", "r", "r", "o", "r", ":", " ", "R", "e", "c", "e", "i", "v", "e", "d", " ", "e", "x", "c", "e", "s", "s", "i", "v", "e", "l", "y", " ", "l", "o", "n", "g", " ", "l", "i", "n", "e", " ", "f", "r", "o", "m", " ", "O", "l", "l", "a", "m", "a">>

\* stream_query is running, called directly or by the /chat/stream endpoint
Streaming == entry \in {"stream_query", "stream_chat"}

\* The chunks stream_query yields: a token of the generation service, a text
\* of the engine or the agent, or a text of stream_query itself.  A chunk of
\* the agent's generator carries its position n in what the generator yields.
TokenOf(n, t) == [from |-> "model", n |-> n, text |-> t]
Token(n) == TokenOf(n, <<"o", "k">>)
EngineText(t) == [from |-> "engine", n |-> 0, text |-> t]
OwnText(t) == [from |-> "stream_query", n |-> 0, text |-> t]

\* data['response'] of a line of the stream: a word, white space, or JSON
\* null; the event generator is the only reader of a token's text
TokenTexts ==
    IF entry = "stream_chat" THEN { <<"o", "k">>, <<" ">>, PyNone } ELSE { <<"o", "k">> }

\* the seconds a read of the next token from Ollama can take
Delays == {4, 6, SocketTimeout}

\* time.time() - start_time after d more seconds; the model stops counting
\* once the budget of the stream is exceeded
After(d) == IF elapsed + d > StreamTimeout THEN StreamTimeout + 1 ELSE elapsed + d

\* str.strip()
Strip(s) ==
    LET keep == {i \in DOMAIN s : s[i] \notin {" ", "\n", "\t"}} IN
    IF keep = {} THEN <<>>
    ELSE SubSeq(s, CHOOSE i \in keep : \A j \in keep : i <= j,
                   CHOOSE i \in keep : \A j \in keep : i >= j)

\* an event of the /chat/stream response; a token event carries the
\* position in out of the chunk it sends
Event(kind, n) == [event |-> kind, n |-> n]

\* the body of the `async for token` loop of event_generator, for the chunk
\* stream_query has just yielded as number n: `if token.strip():` sends it
\* as a token event.  Only /chat/stream has an event generator.
on_token(chunk, n) ==
    IF entry = "stream_chat" /\ Strip(chunk.text) # <<>>
    THEN Append(events, Event("token", n))
    ELSE events

\* /chat/stream: the start event is sent and stream_query is called
ChatStart ==
    /\ entry = "stream_chat"
    /\ pc = "chat_start"
    /\ events' = <<Event("start", 0)>>
    /\ pc' = "start"
    /\ UNCHANGED <<reqVars, selVars, callVars, agent_type, producer, elapsed,
                   late_chunk, out, streamed, produced>>

\* the greeting check matched: recommendation_engine, and no selector call
StreamGreeting ==
    /\ Streaming
    /\ pc = "start"
    /\ IsGreeting(query)
    /\ agent_type' = RECOMMENDATION_ENGINE
    /\ pc' = "open"
    /\ UNCHANGED <<reqVars, selVars, callVars, producer, elapsed, late_chunk, out,
                   streamed, produced, events>>

\* no greeting: _select_relevant_agents is called under wait_for(..., 5.0)
StreamSelect ==
    /\ Streaming
    /\ pc = "start"
    /\ ~IsGreeting(query)
    /\ pc' = "select"
    /\ UNCHANGED <<reqVars, selVars, callVars, streamVars>>

\* a stream_query that streams from the first role the selector returned
ChooseAgentFirstRole ==
    /\ Streaming
    /\ pc = "selected"
    /\ agent_type' =
          IF agent_types.roles # <<>> THEN agent_types.roles[1]
          ELSE RECOMMENDATION_ENGINE
    /\ pc' = "open"
    /\ UNCHANGED <<reqVars, selVars, callVars, producer, elapsed, late_chunk, out,
                   streamed, produced, events>>

\* The selector returned: prefer recommendation_engine, else the first role,
\* else recommendation_engine.  (The selector ends within its own 3 s
\* timeout, so the 5 s timeout around it does not fire.)
ChooseAgent ==
    /\ Streaming
    /\ pc = "selected"
    /\ agent_type' =
          IF RECOMMENDATION_ENGINE \in Range(agent_types.roles) THEN RECOMMENDATION_ENGINE
          ELSE IF agent_types.roles # <<>> THEN agent_types.roles[1]
          ELSE RECOMMENDATION_ENGINE
    /\ pc' = "open"
    /\ UNCHANGED <<reqVars, selVars, callVars, producer, elapsed, late_chunk, out,
                   streamed, produced, events>>

\* a stream_query that asks every selected role to stream
OpenStreamFanOut ==
    /\ pc = "open"
    /\ producer' = "created"
    /\ streamed' = streamed \o (IF agent_types.kind = "list" /\ agent_types.roles # <<>>
                                THEN agent_types.roles ELSE <<agent_type>>)
    /\ pc' = "streaming"
    /\ UNCHANGED <<reqVars, selVars, callVars, agent_type, elapsed, late_chunk, out,
                   produced, events>>

\* `if agent_type in self.agents`: take start_time and make the agent's
\* generator, or yield the apology
OpenStream ==
    /\ pc = "open"
    /\ IF agent_type \in Agents
       THEN /\ producer' = "created"
            /\ streamed' = Append(streamed, agent_type)
            /\ pc' = "streaming"
            /\ UNCHANGED <<out, events>>
       ELSE /\ out' = Append(out, OwnText(CannotProcess))
            /\ events' = on_token(OwnText(CannotProcess), Len(out) + 1)
            /\ pc' = "stream_done"
            /\ UNCHANGED <<producer, streamed>>
    /\ UNCHANGED <<reqVars, selVars, callVars, agent_type, elapsed, late_chunk, produced>>

\* the tokens relayed so far
Relayed == Cardinality({i \in DOMAIN out : out[i].from = "model"})

\* a relay that passes on only the tokens that are not white space, as the
\* event generator does
RelayTokenSkipsBlank ==
    /\ pc = "streaming"
    /\ elapsed <= StreamTimeout
    /\ producer \in {"created", "streaming"}
    /\ Relayed < MaxChunks
    /\ \E d \in Delays \ {SocketTimeout} :
          /\ elapsed' = After(d)
          /\ late_chunk' = (late_chunk \/ d > ChunkTimeout)
    /\ \E t \in { <<"o", "k">>, <<" ">> } :
          /\ out' = IF Strip(t) # <<>> THEN Append(out, TokenOf(produced + 1, t)) ELSE out
          /\ events' = events
    /\ produced' = produced + 1
    /\ producer' = "streaming"
    /\ UNCHANGED <<reqVars, pc, selVars, callVars, agent_type, streamed>>

\* One turn of the loop in which the generator yields a token.  The budget
\* check passes; stream.__anext__() runs the generator, which reads from the
\* socket without awaiting: the event loop is held until the token is read,
\* wait_for's timer cannot run before the awaited future is done, and the
\* token is yielded however long the read took.  Under /chat/stream the
\* event generator then handles the token: token.strip() raises for a token
\* that is no string, and the except branch sends the error event and the
\* end event.
RelayToken ==
    /\ pc = "streaming"
    /\ elapsed <= StreamTimeout
    /\ producer \in {"created", "streaming"}
    /\ Relayed < MaxChunks
    /\ \E d \in Delays \ {SocketTimeout} :
          /\ elapsed' = After(d)
          /\ late_chunk' = (late_chunk \/ d > ChunkTimeout)
    /\ \E t \in TokenTexts :
          /\ out' = Append(out, TokenOf(produced + 1, t))
          /\ IF entry = "stream_chat" /\ t = PyNone
             THEN /\ events' = events \o <<Event("error", 0), Event("end", 0)>>
                  /\ pc' = "chat_done"
                  /\ producer' = "dropped"
             ELSE /\ events' = on_token(TokenOf(produced + 1, t), Len(out) + 1)
                  /\ pc' = pc
                  /\ producer' = "streaming"
    /\ produced' = produced + 1
    /\ UNCHANGED <<reqVars, selVars, callVars, agent_type, streamed>>

\* One turn in which the first line the server sends is longer than 100000
\* bytes: stream_response yields its error text, empties its buffer and
\* goes on reading.
RelayLongLine ==
    /\ pc = "streaming"
    /\ elapsed <= StreamTimeout
    /\ producer = "created"
    /\ \E d \in Delays \ {SocketTimeout} :
          /\ elapsed' = After(d)
          /\ late_chunk' = (late_chunk \/ d > ChunkTimeout)
    /\ out' = Append(out, [EngineText(ErrLongLine) EXCEPT !.n = produced + 1])
    /\ events' = on_token(EngineText(ErrLongLine), Len(out) + 1)
    /\ produced' = produced + 1
    /\ producer' = "streaming"
    /\ UNCHANGED <<reqVars, pc, selVars, callVars, agent_type, streamed>>

\* One turn in which the engine's request or read fails: stream_response
\* catches the error and yields its text as a chunk (after the socket
\* timeout when the read stalled), and the generator is about to return.
RelayEngineError ==
    /\ pc = "streaming"
    /\ elapsed <= StreamTimeout
    /\ producer \in {"created", "streaming"}
    /\ \E d \in Delays, t \in {StreamErrHTTP, ErrConnTimeout, ErrRefused, ErrOther} :
          /\ (t = ErrConnTimeout) = (d = SocketTimeout)
          /\ elapsed' = After(d)
          /\ late_chunk' = (late_chunk \/ d > ChunkTimeout)
          /\ out' = Append(out, [EngineText(t) EXCEPT !.n = produced + 1])
          /\ events' = on_token(EngineText(t), Len(out) + 1)
    /\ produced' = produced + 1
    /\ producer' = "failed"
    /\ UNCHANGED <<reqVars, pc, selVars, callVars, agent_type, streamed>>

\* One turn in which the server keeps sending lines that carry no token
\* (JSON objects without 'response', neither done), or single bytes at
\* intervals below the socket timeout: the read loop of stream_response
\* neither yields nor returns, and as it never awaits, no timer runs.
ProducerSpins ==
    /\ pc = "streaming"
    /\ elapsed <= StreamTimeout
    /\ producer \in {"created", "streaming"}
    /\ producer' = "spinning"
    /\ pc' = "blocked"
    /\ UNCHANGED <<reqVars, selVars, callVars, agent_type, elapsed, late_chunk, out,
                   streamed, produced, events>>

\* One turn in which the generator returns: StopAsyncIteration ends the loop
StreamEnds ==
    /\ pc = "streaming"
    /\ elapsed <= StreamTimeout
    /\ producer \in {"created", "streaming", "failed"}
    /\ \E d \in (IF producer = "failed" THEN {0} ELSE Delays \ {SocketTimeout}) :
          /\ elapsed' = After(d)
          /\ late_chunk' = (late_chunk \/ d > ChunkTimeout)
    /\ producer' = "returned"
    /\ pc' = "stream_done"
    /\ UNCHANGED <<reqVars, selVars, callVars, agent_type, out, streamed, produced, events>>

\* The budget check at the top of the loop fails: TimeoutError is raised,
\* the generator is dropped, the explanatory chunk is yielded and
\* stream_query ends.
StreamTimesOut ==
    /\ pc = "streaming"
    /\ elapsed > StreamTimeout
    /\ out' = Append(out, OwnText(TroubleGenerating))
    /\ events' = on_token(OwnText(TroubleGenerating), Len(out) + 1)
    /\ producer' = "dropped"
    /\ pc' = "stream_done"
    /\ UNCHANGED <<reqVars, selVars, callVars, agent_type, elapsed, late_chunk,
                   streamed, produced>>

\* an event generator that sends the end event twice
ChatEndTwice ==
    /\ entry = "stream_chat"
    /\ pc = "stream_done"
    /\ events' = events \o <<Event("end", 0), Event("end", 0)>>
    /\ pc' = "chat_done"
    /\ UNCHANGED <<reqVars, selVars, callVars, agent_type, producer, elapsed,
                   late_chunk, out, streamed, produced>>

\* /chat/stream: stream_query is exhausted and the end event is sent
ChatEnd ==
    /\ entry = "stream_chat"
    /\ pc = "stream_done"
    /\ events' = Append(events, Event("end", 0))
    /\ pc' = "chat_done"
    /\ UNCHANGED <<reqVars, selVars, callVars, agent_type, producer, elapsed,
                   late_chunk, out, streamed, produced>>

----------------------------------------------------------------------------
(* SimpleOllamaEngine.generate_response, statement by statement, in threads *)

Threads == 1..MaxThreads

\* a thread: where it is in generate_response, and the original_model of
\* each of its nested calls, innermost first
IdleThread == [pc |-> "idle", saved |-> <<>>]

\* `return` of the innermost call: back in the caller's frame at line 123,
\* or out of generate_response
Return(t) ==
    [threads EXCEPT ![t].pc = IF threads[t].saved = <<>> THEN "returned" ELSE "restore"]

\* lines 52-71: the request body is built with self.model_name and sent
EngineCall(t) ==
    /\ threads[t].pc \in {"idle", "call"}
    /\ threads' = [threads EXCEPT ![t].pc = "waiting"]
    /\ UNCHANGED <<entry, query, fallback_model, user_id, deletion, model_name,
                   pc, selVars, callVars, streamVars>>

\* lines 90-117: the reply arrives, or the exchange fails; a 200 reply and a
\* failure both return a text
EngineReply(t) ==
    /\ threads[t].pc = "waiting"
    /\ \E status \in {"200", "non-200", "failed"} :
          threads' = IF status = "non-200"
                     THEN [threads EXCEPT ![t].pc = "check"]
                     ELSE Return(t)
    /\ UNCHANGED <<entry, query, fallback_model, user_id, deletion, model_name,
                   pc, selVars, callVars, streamVars>>

\* line 118: `if self.model_name != self.fallback_model`, else the error
\* text is returned
EngineCheckFallback(t) ==
    /\ threads[t].pc = "check"
    /\ threads' = IF model_name # fallback_model
                  THEN [threads EXCEPT ![t].pc = "save"]
                  ELSE Return(t)
    /\ UNCHANGED <<entry, query, fallback_model, user_id, deletion, model_name,
                   pc, selVars, callVars, streamVars>>

\* line 120: original_model = self.model_name
EngineSaveModel(t) ==
    /\ threads[t].pc = "save"
    /\ Len(threads[t].saved) < MaxDepth
    /\ threads' = [threads EXCEPT ![t].pc = "set",
                                  ![t].saved = <<model_name>> \o @]
    /\ UNCHANGED <<entry, query, fallback_model, user_id, deletion, model_name,
                   pc, selVars, callVars, streamVars>>

\* line 121: self.model_name = self.fallback_model, then the nested call
EngineSetFallback(t) ==
    /\ threads[t].pc = "set"
    /\ model_name' = fallback_model
    /\ threads' = [threads EXCEPT ![t].pc = "call"]
    /\ UNCHANGED <<entry, query, fallback_model, user_id, deletion,
                   pc, selVars, callVars, streamVars>>

\* lines 123-124: self.model_name = original_model; return result
EngineRestore(t) ==
    /\ threads[t].pc = "restore"
    /\ model_name' = Head(threads[t].saved)
    /\ threads' = [threads EXCEPT
                      ![t].saved = Tail(@),
                      ![t].pc = IF Tail(threads[t].saved) = <<>> THEN "returned"
                                ELSE "restore"]
    /\ UNCHANGED <<entry, query, fallback_model, user_id, deletion,
                   pc, selVars, callVars, streamVars>>

----------------
(* The selector called on its own *)

\* the fallback models an engine is constructed with: the default, the
\* primary model's own name, and none
FallbackConfigs == {FallbackModel, PrimaryModel, ""}

\* the state of a request on entry, before any of its code has run
\* self.collections.items(): the collections in the order of the dict
CollectionItems ==
    <<"dna", "microbiome", "biomarkers", "correlations", "recommendations",
      "chat_memory">>

\* delete_user_data before its loop: success = True, every collection still
\* to visit; held is the collections holding documents of the user
NotDeleting ==
    [todo |-> CollectionItems, attempted |-> <<>>, failed |-> {},
     held |-> Collections, success |-> TRUE, returned |-> "none"]

Fresh ==
    /\ agent_types = NoList
    /\ sel_call = NoCall
    /\ sel_scans = 0
    /\ sel_llm_calls = 0
    /\ max_in_flight = 0
    /\ message_history = [r \in Agents |-> 0]
    /\ synth_call = NoCall
    /\ synthesis = NoSynthesis
    /\ error = <<>>
    /\ final = NoAnswer
    /\ agent_type = "none"
    /\ producer = "none"
    /\ elapsed = 0
    /\ late_chunk = FALSE
    /\ out = <<>>
    /\ streamed = <<>>
    /\ produced = 0
    /\ events = <<>>
    /\ model_name = PrimaryModel
    /\ threads = [t \in Threads |-> IdleThread]
    /\ deletion = NotDeleting

InitSelect ==
    /\ entry \in {"select_simple", "select_legacy"}
    /\ query \in Queries
    /\ fallback_model \in FallbackConfigs
    /\ user_id = NoUser
    /\ pc = "select"
    /\ tasks = <<>>
    /\ agent_results = <<>>
    /\ Fresh

NextSelect ==
    \/ SelectKeywordTier
    \/ SelectFallbackReply
    \/ SelectFallbackTimeout
    \/ SelectByModel

SpecSelect == InitSelect /\ [][NextSelect]_vars

\* the selector has returned its role list
SelectorReturned == pc = "selected" /\ agent_types.kind = "list"

HasDnaKeyword ==
    \E kw \in { <<"d", "n", "a">>, <<"g", "e", "n", "e", "t", "i", "c">>, <<"g", "e", "n", "e">>, <<"m", "u", "t", "a", "t", "i", "o", "n">>, <<"v", "a", "r", "i", "a", "n", "t">>, <<"g", "e", "n", "o", "m", "e">> } :
        Contains(Lower(query), kw)

MatchesNoKeyword ==
    ~ \E kw \in dna_keywords \cup microbiome_keywords \cup biomarker_keywords :
        Contains(Lower(query), kw)

\* C2: when no keyword matches and the simple selector's generation call
\* times out or fails, the selector returns exactly
\* [correlation_finder, recommendation_engine].
C2_FallbackFailureGivesDefault ==
    (/\ entry = "select_simple" /\ SelectorReturned
     /\ MatchesNoKeyword
     /\ sel_call.outcome \in {"timeout"} \cup FailureKinds)
        => agent_types.roles = <<"correlation_finder", "recommendation_engine">>

\* C2 witness: the call timed out, and another run where it was refused
C2_Witness ==
    /\ entry = "select_simple" /\ SelectorReturned
    /\ MatchesNoKeyword
    /\ sel_call.outcome = "refused"
    /\ agent_types.roles = <<"correlation_finder", "recommendation_engine">>

----------------------------------------------------------------------------
(* An agent's process() called on its own *)

InitAgent ==
    /\ entry \in {"agent_simple", "agent_legacy"}
    /\ query \in Tasks
    /\ fallback_model \in FallbackConfigs
    /\ user_id \in Tenants \cup {NoUser}
    /\ pc = "gather"
    /\ \E role \in Agents : tasks = <<Pending(role)>>
    /\ agent_results = <<>>
    /\ Fresh

NextAgent ==
    \/ \E i \in DOMAIN tasks : AgentStart(i)
    \/ \E i \in DOMAIN tasks : SimpleAgentFinish(i)
    \/ \E i \in DOMAIN tasks : LegacyAgentFinish(i)

SpecAgent == InitAgent /\ [][NextAgent]_vars

----------------------------------------------------------------------------
(* _synthesize_responses called on its own *)

\* the agent results a caller may pass in
InputResults ==
    {Success(r, t, <<>>) :
        r \in {DNA_ANALYST, RECOMMENDATION_ENGINE}, t \in { <<"R">>, <<"S">> }}
    \cup {Failure(CORRELATION_FINDER, <<"U", "n", "a", "b", "l", "e", " ", "t", "o", " ", "a", "n", "a", "l", "y", "z", "e">>, <<"b", "o", "o", "m">>)}

InitSynth ==
    /\ entry \in {"synth_simple", "synth_legacy"}
    /\ query \in Tasks
    /\ fallback_model \in FallbackConfigs
    /\ user_id = NoUser
    /\ pc = "synthesize"
    /\ tasks = <<>>
    /\ agent_results \in SeqsOf(InputResults, 0, MaxResults)
    /\ Fresh

NextSynth ==
    \/ SynthesizeNothing
    \/ SimpleSynthesize
    \/ LegacySynthesize

SpecSynth == InitSynth /\ [][NextSynth]_vars

----------------------------------------------------------------------------
(* process_query and process_health_query, from request to answer *)

InitQuery ==
    /\ entry \in {"process_query", "process_health_query"}
    /\ query \in Tasks
    /\ fallback_model \in FallbackConfigs
    /\ user_id \in (IF entry = "process_health_query" THEN Tenants ELSE {NoUser})
    /\ pc = "select"
    /\ tasks = <<>>
    /\ agent_results = <<>>
    /\ Fresh

NextQuery ==
    \/ SelectInThread
    \/ SelectByModel
    \/ BuildTasks
    \/ \E i \in DOMAIN tasks : AgentStart(i)
    \/ \E i \in DOMAIN tasks : LegacyAgentFinish(i)
    \/ GatherReturn
    \/ SynthesizeNothing
    \/ LegacySynthesize
    \/ Respond
    \/ RespondError

SpecQuery == InitQuery /\ [][NextQuery]_vars

\* the agent results have been handed to the synthesizer
Dispatched == Pipeline /\ pc \in {"synthesize", "respond", "done"} /\ final.kind # "error"

\* C3: for every dispatch, the list handed to the synthesizer has one entry
\* per role the selector returned, in the selector's order.
C3_OneResultPerRole ==
    Dispatched =>
        /\ Len(agent_results) = Len(agent_types.roles)
        /\ \A i \in DOMAIN agent_results : agent_results[i].agent = agent_types.roles[i]

HasBiomarkerKeyword ==
    \E kw \in { <<"b", "l", "o", "o", "d", " ", "t", "e", "s", "t">>, <<"l", "a", "b", " ", "r", "e", "s", "u", "l", "t">>, <<"b", "i", "o", "m", "a", "r", "k", "e", "r">>, <<"l", "e", "v", "e", "l">>, <<"h", "i", "g", "h">>, <<"l", "o", "w">>, <<"t", "e", "s", "t", " ", "r", "e", "s", "u", "l", "t">> } :
        Contains(Lower(query), kw)

\* C4: process_query, for a query with a DNA keyword and a biomarker
\* keyword, ends with an answer built from the results of 4 agents, among
\* them none of the four roles missing, and a non-empty synthesized text.
C4_EndToEndFourAgents ==
    (entry = "process_query" /\ pc = "done" /\ HasDnaKeyword /\ HasBiomarkerKeyword)
        => /\ final.kind = "answer"
           /\ Len(agent_results) = 4
           /\ {"dna_analyst", "biomarker_interpreter", "correlation_finder",
               "recommendation_engine"} \subseteq Range(final.agents_used)
           /\ final.content # <<>>

\* the generation service failed for the agent call of task t
GenerationFailed(t) == t.gen \in FailureKinds \cup {"raise", "none"}

\* C5: whenever the generation service or the retrieval service fails during
\* process(task, context), the agent returns a result for its own role with
\* confidence 0.1 and the error captured in the error field.
C5_FailureAbsorbedAsLowConfidence ==
    \A i \in DOMAIN tasks :
        (tasks[i].st = "done" /\ (GenerationFailed(tasks[i]) \/ tasks[i].ret = "raise"))
            => /\ tasks[i].result.agent = tasks[i].role
               /\ tasks[i].result.confidence = 1
               /\ tasks[i].result.has_error

\* C6: if the synthesizer's generation call fails and the input holds a
\* recommendation_engine result, the synthesized text is the response of
\* the first such result.
C6_FallbackToRecommendation ==
    (/\ pc = "respond"
     /\ synth_call.outcome \in FailureKinds \cup {"raise", "none"}
     /\ \E i \in DOMAIN agent_results : agent_results[i].agent = "recommendation_engine")
        => \E i \in DOMAIN agent_results :
              /\ agent_results[i].agent = "recommendation_engine"
              /\ \A j \in 1..(i - 1) : agent_results[j].agent # "recommendation_engine"
              /\ synthesis.response = agent_results[i].response

\* C8: a dispatch of two or more agents has had two generation calls in
\* flight at once by the time its results are joined.
C8_AgentsOverlap ==
    (Dispatched /\ Len(tasks) >= 2) => max_in_flight >= 2

\* C9: the synthesizer is not started, and no agent result reaches the
\* caller, before every dispatched agent has produced its result; none is
\* dropped.
C9_FanInBarrier ==
    (Pipeline /\ (pc \in {"synthesize", "respond", "done"} \/ final.agents_used # <<>>
                  \/ synth_call.outcome # "none"))
        => \/ final.kind = "error"
           \/ /\ \A i \in DOMAIN tasks : tasks[i].st = "done"
              /\ Len(agent_results) = Len(tasks)

\* C9 witness: several agents were awaited and the synthesizer is about to run
C9_Witness ==
    /\ Pipeline /\ pc = "synthesize"
    /\ Len(tasks) >= 2
    /\ \A i \in DOMAIN tasks : tasks[i].st = "done"
    /\ \E i \in DOMAIN tasks : tasks[i].result.has_error

----------------------------------------------------------------------------
(* stream_query, from request to the end of the stream *)

StreamedQueries == {Join(ws, <<" ">>) : ws \in SeqsOf(Vocabulary, 1, MaxStreamWords)}

InitStream ==
    /\ entry = "stream_query"
    /\ query \in StreamedQueries
    /\ fallback_model = FallbackModel
    /\ user_id = NoUser
    /\ pc = "start"
    /\ tasks = <<>>
    /\ agent_results = <<>>
    /\ Fresh

NextStream ==
    \/ StreamGreeting
    \/ StreamSelect
    \/ SelectKeywordTier
    \/ SelectFallbackReply
    \/ SelectFallbackTimeout
    \/ ChooseAgent
    \/ OpenStream
    \/ RelayToken
    \/ RelayLongLine
    \/ RelayEngineError
    \/ ProducerSpins
    \/ StreamEnds
    \/ StreamTimesOut

SpecStream == InitStream /\ [][NextStream]_vars

StreamFinished == entry = "stream_query" /\ pc = "stream_done"

BudgetExceeded == late_chunk \/ elapsed > StreamTimeout

\* C7: when a wait for a chunk lasted over 5 s or the stream lasted over
\* 30 s, the finished output ends with the 'having trouble' chunk, holds it
\* exactly once, and the agent's generator was dropped, not run to its end.
C7_BudgetExceededEndsWithTrouble ==
    (StreamFinished /\ BudgetExceeded) =>
        /\ out # <<>>
        /\ out[Len(out)] = OwnText(TroubleGenerating)
        /\ Cardinality({i \in DOMAIN out : out[i] = OwnText(TroubleGenerating)}) = 1
        /\ producer = "dropped"

GreetingQuery ==
    /\ entry = "stream_query"
    /\ \E word \in greetings : Contains(Lower(query), word)

\* C10: for a query that contains a greeting word in any letter case,
\* stream_query never runs the selector (no keyword scan, no generation
\* call, no selection) and the role it streams is recommendation_engine.
C10_GreetingSkipsSelector ==
    GreetingQuery =>
        /\ sel_scans = 0
        /\ sel_llm_calls = 0
        /\ sel_call = NoCall
        /\ agent_types = NoList
        /\ pc \in {"start", "open", "streaming", "blocked", "stream_done"}
        /\ (pc # "start" => agent_type = RECOMMENDATION_ENGINE)

\* C10 witness: the capitalised greeting was answered by a finished stream
C10_Witness ==
    /\ GreetingQuery
    /\ query = <<"H", "e", "l", "l", "o">>
    /\ pc = "stream_done"
    /\ producer = "returned"
    /\ Len(out) >= 2

----------------------------------------------------------------------------
(* Properties of the agents, the synthesizer and the selector *)

\* the result of agent i, returned from the try block of process()
Succeeded(i) == tasks[i].st = "done" /\ ~tasks[i].result.has_error

\* C11: the confidence (in tenths) of every result returned from an agent's
\* try block depends on the length of the response alone: 0 for an empty
\* response (or None), 3 for 1..49 characters, 6 for 50..199, 8 for 200 or
\* more; so it lies between 0 and 10.
C11_ConfidenceBands ==
    \A i \in DOMAIN tasks :
        Succeeded(i) =>
            LET r == tasks[i].result.response
                c == tasks[i].result.confidence
                n == IF r = PyNone THEN 0 ELSE Len(r)
            IN /\ (n = 0 => c = 0)
               /\ (n \in 1..49 => c = 3)
               /\ (n \in 50..199 => c = 6)
               /\ (n >= 200 => c = 8)
               /\ c \in 0..10

\* C11 witness: an agent answered with 200 characters and got 0.8
C11_Witness ==
    /\ entry = "agent_legacy"
    /\ Succeeded(1)
    /\ Len(tasks[1].result.response) = 200
    /\ tasks[1].result.confidence = 8

\* _synthesize_responses has returned
Synthesized == pc = "respond"

\* C12: for an empty list of results the synthesizer returns exactly the
\* fixed 'not enough information' text and makes no generation call.
C12_EmptyInputFixedText ==
    (Synthesized /\ agent_results = <<>>) =>
        /\ synthesis.response = <<"I", " ", "d", "o", "n", "'", "t", " ", "h", "a", "v", "e", " ", "e", "n", "o", "u", "g", "h", " ", "i", "n", "f", "o", "r", "m", "a", "t", "i", "o", "n", " ", "t", "o", " ", "a", "n", "s", "w", "e", "r", " ", "y", "o", "u", "r", " ", "h", "e", "a", "l", "t", "h", " ", "q", "u", "e", "s", "t", "i", "o", "n", ".">>
        /\ synth_call = NoCall

\* C12 witness: the legacy synthesizer has returned for an empty list
C12_Witness ==
    /\ entry = "synth_legacy"
    /\ Synthesized
    /\ agent_results = <<>>
    /\ synthesis.response = NotEnoughInformation

\* C13: if the synthesizer's generation call fails and no input result is
\* recommendation_engine's, the synthesized text is the fixed 'had trouble
\* synthesizing' text.
C13_FallbackToFixedText ==
    (/\ Synthesized
     /\ agent_results # <<>>
     /\ synth_call.outcome \in FailureKinds \cup {"raise", "none"}
     /\ \A i \in DOMAIN agent_results : agent_results[i].agent # "recommendation_engine")
        => synthesis.response = <<"I", " ", "p", "r", "o", "c", "e", "s", "s", "e", "d", " ", "y", "o", "u", "r", " ", "h", "e", "a", "l", "t", "h", " ", "q", "u", "e", "r", "y", " ", "b", "u", "t", " ", "h", "a", "d", " ", "t", "r", "o", "u", "b", "l", "e", " ", "s", "y", "n", "t", "h", "e", "s", "i", "z", "i", "n", "g", " ", "t", "h", "e", " ", "i", "n", "s", "i", "g", "h", "t", "s", ".">>

\* C14: process_query and process_health_query end by returning an answer
\* whose content is a non-empty text: the synthesized text, or the apology
\* followed by the error.
C14_AlwaysWellFormedAnswer ==
    (Pipeline /\ pc = "done") =>
        /\ final.kind \in {"answer", "error"}
        /\ final.content # PyNone
        /\ final.content # <<>>
        /\ final.kind = "answer" => final.content = synthesis.response

\* C15: in a stream_query request at most one agent's stream_process is
\* called, at most once, and it is the chosen agent's; every relayed token
\* comes from that one stream.
C15_OneAgentStreamsOnce ==
    (entry = "stream_query") =>
        /\ Len(streamed) <= 1
        /\ \A i \in DOMAIN streamed : streamed[i] = agent_type
        /\ (\E i \in DOMAIN out : out[i].from \in {"model", "engine"}) => Len(streamed) = 1
        /\ \A i, j \in DOMAIN out :
              (out[i].from = "model" /\ out[j].from = "model" /\ i < j) => out[i].n < out[j].n

\* C15 witness: a selected agent streamed two tokens and its stream ended
C15_Witness ==
    /\ entry = "stream_query"
    /\ pc = "stream_done"
    /\ sel_scans = 1
    /\ streamed = <<agent_type>>
    /\ Relayed >= 2

HasMicrobiomeKeyword ==
    \E kw \in { <<"m", "i", "c", "r", "o", "b", "i", "o", "m", "e">>, <<"g", "u", "t">>, <<"b", "a", "c", "t", "e", "r", "i", "a">>, <<"p", "r", "o", "b", "i", "o", "t", "i", "c">>, <<"p", "r", "e", "b", "i", "o", "t", "i", "c">>, <<"d", "i", "g", "e", "s", "t">> } :
        Contains(Lower(query), kw)

\* the roles whose keywords the query contains, with the two cross-domain roles
MatchedWithCrossDomain ==
    (IF HasDnaKeyword THEN {"dna_analyst"} ELSE {})
    \cup (IF HasMicrobiomeKeyword THEN {"microbiome_expert"} ELSE {})
    \cup (IF HasBiomarkerKeyword THEN {"biomarker_interpreter"} ELSE {})
    \cup {"correlation_finder", "recommendation_engine"}

\* C16: when a role keyword matches, the simple selector returns exactly the
\* matched roles with correlation_finder and recommendation_engine and makes
\* no generation call; a generation call is made only when nothing matches.
C16_KeywordTierExactAndNoCall ==
    SimpleSelector =>
        /\ (SelectorReturned /\ ~MatchesNoKeyword) =>
              /\ Range(agent_types.roles) = MatchedWithCrossDomain
              /\ Len(agent_types.roles) = Cardinality(MatchedWithCrossDomain)
              /\ sel_llm_calls = 0
              /\ sel_call = NoCall
        /\ (sel_llm_calls > 0 \/ sel_call # NoCall) => MatchesNoKeyword

\* C16 witness: a query with a microbiome and a biomarker keyword got the
\* four roles without a generation call
C16_Witness ==
    /\ entry = "select_simple" /\ SelectorReturned
    /\ query = <<"g", "u", "t", " ", "h", "i", "g", "h">>
    /\ Range(agent_types.roles) =
          {"microbiome_expert", "biomarker_interpreter", "correlation_finder", "recommendation_engine"}
    /\ sel_llm_calls = 0

Specialists ==
    {"dna_analyst", "microbiome_expert", "biomarker_interpreter",
     "correlation_finder", "recommendation_engine"}

\* the dispatch loop has run over the selector's list
DispatchBuilt == Pipeline /\ pc \in {"gather", "synthesize", "respond", "done"} /\ final.kind # "error"

\* C17: when the selection reply names no specialist role (an empty list,
\* or only names outside the role set), the agents dispatched are exactly
\* correlation_finder and recommendation_engine.
C17_NothingUsableDispatchesDefault ==
    (/\ DispatchBuilt
     /\ agent_types.kind = "list"
     /\ \A i \in DOMAIN agent_types.roles : agent_types.roles[i] \notin Specialists)
        => {tasks[i].role : i \in DOMAIN tasks} = {"correlation_finder", "recommendation_engine"}

\* C18: every role the simple selector returns is one of the five
\* specialist roles; orchestrator is never returned.
C18_NeverReturnsOrchestrator ==
    (SimpleSelector /\ SelectorReturned) =>
        \A i \in DOMAIN agent_types.roles : agent_types.roles[i] \in Specialists

\* C19: no role appears twice in the list the simple selector returns.
C19_SelectionHasNoDuplicates ==
    (SimpleSelector /\ SelectorReturned) =>
        \A i, j \in DOMAIN agent_types.roles :
            agent_types.roles[i] = agent_types.roles[j] => i = j

\* The selector called on its own, with the scheduling the event loop gives
\* it: the awaited coroutine is run, and the timer of wait_for fires while
\* the generation call, which runs in a worker thread, has not returned.
\* Nothing is assumed of the generation service.
InitSelectFair ==
    /\ entry = "select_simple"
    /\ query \in StreamedQueries
    /\ fallback_model \in FallbackConfigs
    /\ user_id = NoUser
    /\ pc = "select"
    /\ tasks = <<>>
    /\ agent_results = <<>>
    /\ Fresh

NextSelectFair ==
    \/ SelectKeywordTier
    \/ SelectFallbackReply
    \/ SelectFallbackTimeout

SpecSelectFair ==
    /\ InitSelectFair
    /\ [][NextSelectFair]_vars
    /\ WF_vars(SelectKeywordTier)
    /\ WF_vars(SelectFallbackTimeout)

\* C20: the simple selector always returns a role list, whether or not the
\* generation service answers, and it makes at most one generation call.
C20_SelectorTerminates ==
    /\ [](sel_llm_calls <= 1)
    /\ (entry = "select_simple") => <>(SelectorReturned)

\* C20 witness: the generation call did not answer, the deadline fired and
\* the selector returned after its one call
C20_Witness ==
    /\ entry = "select_simple" /\ SelectorReturned
    /\ sel_call.outcome = "timeout"
    /\ sel_llm_calls = 1
    /\ agent_types.roles # <<>>

----------------------------------------------------------------------------
(* Properties of roles, state, retrieval and prompts *)

\* the roles of the results the synthesizer was given, in their order
InputRoles == [i \in DOMAIN agent_results |-> agent_results[i].agent]

\* C21: the roles the synthesizer and the final answer report are roles of
\* the synthesizer's input results (exactly those, in input order, when the
\* synthesis succeeded), and every input result's role was selected for the
\* request.
C21_RolesComeFromInput ==
    /\ Range(synthesis.source_agents) \subseteq Range(InputRoles)
    /\ synthesis.sourced => synthesis.source_agents = InputRoles
    /\ final.kind = "answer" => final.agents_used = InputRoles
    /\ Pipeline => Range(InputRoles) \subseteq Range(agent_types.roles)

\* C21 witness: an answer was returned that credits two selected agents
C21_Witness ==
    /\ Pipeline /\ pc = "done"
    /\ final.kind = "answer"
    /\ Len(final.agents_used) >= 2
    /\ synthesis.sourced
    /\ final.agents_used = agent_types.roles

\* no agent holds a stored message
NoHistory == \A r \in Agents : message_history[r] = 0

Searched == {i \in DOMAIN tasks : tasks[i].ret \in {"ok", "raise"}}

\* the documents of a call that reached its prompt or its sources list
Seen(t) == Range(t.docs) \cup Range(t.prompt.data) \cup Range(t.result.sources)

\* C23: with a vector store configured, the search request of a
\* HealthAIAgent names the collections of its role and the user_id of the
\* request being processed ('default' when the context has none), and every
\* document that reaches the agent's prompt or sources carries that user_id
\* and lies in one of those collections.
C23_RetrievalScopedToTenant ==
    \A i \in DOMAIN tasks :
        /\ i \in Searched =>
              /\ tasks[i].search.collection_names = collection_map(tasks[i].role)
              /\ tasks[i].search.user_id = context_user_id
        /\ \A d \in Seen(tasks[i]) :
              /\ d.user_id = context_user_id
              /\ d.collection \in Range(collection_map(tasks[i].role))

\* C23 witness: an agent of user bob got documents from a store that also
\* holds documents of alice in the same collections, and listed sources
C23_Witness ==
    /\ user_id = "bob"
    /\ tasks[1].st = "done"
    /\ tasks[1].ret = "ok"
    /\ Len(tasks[1].docs) >= top_k
    /\ Len(tasks[1].result.sources) = 3

\* the agent calls whose generation request has been sent
Prompted == {i \in DOMAIN tasks : tasks[i].st \in {"running", "done"}}

\* C24: the prompt an agent sends to the generation service carries the
\* instructions of the agent's role and at most three documents, and the
\* sources of the result are exactly the documents of that prompt.
C24_PromptCarriesRoleAndThreeSnippets ==
    \A i \in Prompted :
        /\ tasks[i].role \in tasks[i].prompt.instructions
        /\ Len(tasks[i].prompt.data) <= 3
        /\ (tasks[i].st = "done" /\ ~tasks[i].result.has_error) =>
              tasks[i].result.sources = tasks[i].prompt.data

----------------------------------------------------------------------------
(* stream_query and the /chat/stream event generator under the event loop *)

\* the messages of these requests: greetings, which need no selector call
ChatMessages == {q \in { <<"H", "e", "l", "l", "o">>, <<"h", "i", "g", "h">> } : IsGreeting(q)}

\* stream_query called directly or through POST /chat/stream.  The event
\* loop runs the one coroutine that is ready and the server iterates the
\* response generator until it is exhausted, so a step that can be taken is
\* taken.  Nothing is assumed of the generation service.
InitStreamFair ==
    /\ entry \in {"stream_query", "stream_chat"}
    /\ query \in ChatMessages
    /\ fallback_model = FallbackModel
    /\ user_id = NoUser
    /\ pc = IF entry = "stream_chat" THEN "chat_start" ELSE "start"
    /\ tasks = <<>>
    /\ agent_results = <<>>
    /\ Fresh

NextStreamFair ==
    \/ ChatStart
    \/ StreamGreeting
    \/ OpenStream
    \/ RelayToken
    \/ RelayLongLine
    \/ RelayEngineError
    \/ ProducerSpins
    \/ StreamEnds
    \/ StreamTimesOut
    \/ ChatEnd

SpecStreamFair == InitStreamFair /\ [][NextStreamFair]_vars /\ WF_vars(NextStreamFair)

\* the chunks of out that the agent's generator yielded
FromAgent == SelectSeq(out, LAMBDA c : c.from \in {"model", "engine"})

\* C25: when the generation service fails while an agent streams, the
\* error text is the last chunk of the agent and the only such chunk.
C25_OneFinalErrorChunk ==
    \A k \in DOMAIN FromAgent :
        FromAgent[k].from = "engine" => k = Len(FromAgent)

\* the event generator's last event is the end event
EndSent == events # <<>> /\ events[Len(events)].event = "end"

\* the end event, if sent, is the last event and the generator has returned
EndOnceAndLast ==
    /\ \A k \in DOMAIN events : events[k].event = "end" => k = Len(events)
    /\ EndSent <=> pc = "chat_done"

\* C26: the event generator of /chat/stream sends the end event at most
\* once, sends nothing after it, and sends it whenever stream_query has
\* ended (by completion, by the 30 s budget) or a token has raised.
C26_EndEventOnceAndLast ==
    /\ []EndOnceAndLast
    /\ (entry = "stream_chat" /\ pc = "stream_done") ~> EndSent

\* C26 witness: a token raised after a token event and a skipped white-space
\* token, and the error event and the end event were sent
C26_Witness ==
    /\ entry = "stream_chat"
    /\ pc = "chat_done"
    /\ Len(events) = 4
    /\ events[2].event = "token"
    /\ events[3].event = "error"
    /\ Len(out) = 3
    /\ EndSent

\* C27: stream_query ends, whatever the generation service does
C27_StreamQueryTerminates == <>(pc \in {"stream_done", "chat_done"})

\* C28: whenever stream_query has an agent stream, that agent is
\* recommendation_engine: every list the selector returns to stream_query
\* contains it, so the first selected role is never the one chosen.
C28_StreamerIsRecommendationEngine ==
    Streaming =>
        /\ \A k \in DOMAIN streamed : streamed[k] = RECOMMENDATION_ENGINE
        /\ agent_type \in {"none", RECOMMENDATION_ENGINE}
        /\ (pc = "selected" /\ agent_types.kind = "list") =>
              RECOMMENDATION_ENGINE \in Range(agent_types.roles)

\* C28 witness: the selector put dna_analyst first for a DNA query, and the
\* stream was opened on recommendation_engine
C28_Witness ==
    /\ entry = "stream_query"
    /\ pc = "streaming"
    /\ agent_types.kind = "list"
    /\ agent_types.roles[1] = DNA_ANALYST
    /\ streamed = <<RECOMMENDATION_ENGINE>>

\* C29: what stream_query has yielded is the chunks its agent's generator
\* yielded, each at its own position (none dropped, repeated or moved),
\* followed by at most one text of stream_query itself, which ends the
\* stream.
C29_RelayIsPrefix ==
    Streaming =>
        \A k \in DOMAIN out :
            /\ out[k].from \in {"model", "engine"} => out[k].n = k /\ k <= produced
            /\ out[k].from = "stream_query" =>
                  k = Len(out) /\ pc \in {"stream_done", "chat_done"}

\* C29 witness: tokens were relayed, the budget ran out and the stream
\* ended with the text of stream_query
C29_Witness ==
    /\ entry = "stream_query"
    /\ pc = "stream_done"
    /\ Relayed >= 3
    /\ produced = Relayed
    /\ out[Len(out)] = OwnText(TroubleGenerating)

\* the agent calls of SimpleHealthAgent whose last exchange with Ollama failed
FailedCalls ==
    {i \in DOMAIN tasks :
        SimpleAgents /\ tasks[i].st = "done" /\ tasks[i].gen \in FailureKinds}

\* C30: SimpleOllamaEngine.generate_response does not raise: when the
\* exchange with Ollama fails (refused, socket timeout, other exception,
\* non-200 status, unparsable body) the caller receives a text that begins
\* with 'Error', as it would receive a generated text.
C30_FailuresReturnedAsErrorText ==
    \A i \in FailedCalls :
        /\ ~tasks[i].result.has_error
        /\ tasks[i].result.response # PyNone
        /\ Len(tasks[i].result.response) >= 5
        /\ SubSeq(tasks[i].result.response, 1, 5) = <<"E", "r", "r", "o", "r">>

\* C30 witness: the connection was reset during the call and the agent's
\* response is the engine's error text
C30_Witness ==
    /\ entry = "agent_simple"
    /\ 1 \in FailedCalls
    /\ tasks[1].gen = "exception"
    /\ tasks[1].result.response = ErrOther

----------------------------------------------------------------------------
(* Threads calling generate_response on the engine they share *)

\* api_server makes one engine for all requests, and the selector runs
\* generate_response in a worker thread (asyncio.to_thread) per request.
InitEngine ==
    /\ entry = "generate_response"
    /\ query \in Tasks
    /\ fallback_model \in FallbackConfigs
    /\ user_id = NoUser
    /\ pc = "threads"
    /\ tasks = <<>>
    /\ agent_results = <<>>
    /\ Fresh

NextEngine ==
    \E t \in Threads :
        \/ EngineCall(t)
        \/ EngineReply(t)
        \/ EngineCheckFallback(t)
        \/ EngineSaveModel(t)
        \/ EngineSetFallback(t)
        \/ EngineRestore(t)

SpecEngine == InitEngine /\ [][NextEngine]_vars

\* no generate_response call is in progress
NoCallInProgress == \A t \in Threads : threads[t].pc \in {"idle", "returned"}

\* C31: whenever no generate_response call is in progress, the engine's
\* model_name is the primary model it was constructed with.
C31_ModelNameRestored == NoCallInProgress => model_name = PrimaryModel

----------------------------------------------------------------------------
(* Properties of LocalHealthLLM.generate_response *)

\* the finished calls of HealthAIAgent.process on its own, each of which
\* made one call of LocalHealthLLM.generate_response
LocalCalls ==
    {i \in DOMAIN tasks : entry = "agent_legacy" /\ tasks[i].st = "done"}

\* C32 (as amended): a call of LocalHealthLLM.generate_response makes at
\* most max_retries + 1 = 3 attempts, the first with the primary model.
\* With a fallback model configured every later attempt uses the fallback
\* model; with none configured every attempt uses the primary model.
C32_AtMostThreeAttempts ==
    \A i \in LocalCalls :
        LET tried == tasks[i].tried IN
        /\ Len(tried) \in 1..(max_retries + 1)
        /\ tried[1] = PrimaryModel
        /\ \A k \in 2..Len(tried) :
              tried[k] = IF fallback_model # "" THEN fallback_model ELSE PrimaryModel

\* C32 witness: the primary model failed and the fallback model failed
\* twice, the last attempt being the third
C32_Witness ==
    /\ 1 \in LocalCalls
    /\ tasks[1].tried = <<PrimaryModel, FallbackModel, FallbackModel>>
    /\ tasks[1].gen = "raise"

\* C32 as stated: at most 3 attempts, exactly one of them with the primary
\* model, the later ones with the fallback model when one is configured.
C32_Original ==
    \A i \in LocalCalls :
        LET tried == tasks[i].tried IN
        /\ Len(tried) \in 1..(max_retries + 1)
        /\ Cardinality({k \in DOMAIN tried : tried[k] = PrimaryModel}) = 1
        /\ fallback_model # "" => \A k \in 2..Len(tried) : tried[k] = fallback_model

\* C33: a call all of whose attempts failed raised RuntimeError('Failed to
\* generate response after 2 retries'); none returned without a text.
C33_AllFailedRaises ==
    \A i \in LocalCalls :
        tasks[i].gen # "text" =>
            /\ tasks[i].gen = "raise"
            /\ tasks[i].result.has_error
            /\ tasks[i].result.error = RetriesExhausted

----------------------------------------------------------------------------
(* Properties of HealthVectorStore.semantic_search *)

\* C35: semantic_search hands back at most top_k documents in total over
\* the collections asked for, in ascending order of distance, and leaves
\* out the documents of a collection whose query failed.
C35_AtMostTopKInTotal ==
    \A i \in DOMAIN tasks :
        (entry = "agent_legacy" /\ tasks[i].st # "pending" /\ tasks[i].ret = "ok") =>
            /\ Len(tasks[i].docs) <= top_k
            /\ \A a, b \in DOMAIN tasks[i].docs :
                  a < b => tasks[i].docs[a].distance <= tasks[i].docs[b].distance

----------------------------------------------------------------------------
(* HealthVectorStore.delete_user_data *)

\* a loop that gives up at the first collection whose delete raised
DeleteFromCollectionStopsAtFailure ==
    /\ pc = "deleting"
    /\ deletion.todo # <<>>
    /\ \E raised \in BOOLEAN :
          deletion' = [deletion EXCEPT
              !.todo = IF raised THEN <<>> ELSE Tail(@),
              !.attempted = Append(@, Head(deletion.todo)),
              !.failed = IF raised THEN @ \cup {Head(deletion.todo)} ELSE @,
              !.held = IF raised THEN @ ELSE @ \ {Head(deletion.todo)},
              !.success = IF raised THEN FALSE ELSE @]
    /\ UNCHANGED <<entry, query, fallback_model, user_id, engineVars, pc,
                   selVars, callVars, streamVars>>

\* One turn of the loop: collection.delete(where={"user_id": user_id}) on
\* the next collection removes the user's documents from it, or raises,
\* which is logged and sets success = False; the loop goes on either way.
DeleteFromCollection ==
    /\ pc = "deleting"
    /\ deletion.todo # <<>>
    /\ \E raised \in BOOLEAN :
          deletion' = [deletion EXCEPT
              !.todo = Tail(@),
              !.attempted = Append(@, Head(deletion.todo)),
              !.failed = IF raised THEN @ \cup {Head(deletion.todo)} ELSE @,
              !.held = IF raised THEN @ ELSE @ \ {Head(deletion.todo)},
              !.success = IF raised THEN FALSE ELSE @]
    /\ UNCHANGED <<entry, query, fallback_model, user_id, engineVars, pc,
                   selVars, callVars, streamVars>>

\* return success
DeleteReturn ==
    /\ pc = "deleting"
    /\ deletion.todo = <<>>
    /\ deletion' = [deletion EXCEPT !.returned = deletion.success]
    /\ pc' = "deleted"
    /\ UNCHANGED <<entry, query, fallback_model, user_id, engineVars,
                   selVars, callVars, streamVars>>

InitDelete ==
    /\ entry = "delete_user_data"
    /\ query \in Tasks
    /\ fallback_model \in FallbackConfigs
    /\ user_id \in Tenants
    /\ pc = "deleting"
    /\ tasks = <<>>
    /\ agent_results = <<>>
    /\ Fresh

NextDelete == DeleteFromCollection \/ DeleteReturn

SpecDelete == InitDelete /\ [][NextDelete]_vars

\* C36: delete_user_data has tried the delete on every collection, in the
\* order of the dict, when it returns, whichever deletes failed; it returns
\* True exactly when none failed, and then no collection holds documents of
\* the user.
C36_EveryCollectionAttempted ==
    pc = "deleted" =>
        /\ deletion.attempted = CollectionItems
        /\ deletion.returned = (deletion.failed = {})
        /\ deletion.held \subseteq deletion.failed

\* C36 witness: the delete on the first collection failed, all the later
\* collections were tried and emptied, and False was returned
C36_Witness ==
    /\ pc = "deleted"
    /\ deletion.failed = {"dna"}
    /\ deletion.attempted = CollectionItems
    /\ deletion.held = {"dna"}
    /\ deletion.returned = FALSE

----------------------------------------------------------------------------
(* generate_chat_response of the MCP server, the body of POST /chat/stream *)

\* the connection test: GET /api/tags answers 200, answers another status
\* or raises; anything but 200 is sent as an error event and the generator
\* returns, which runs its finally clause
McpConnectionTest ==
    /\ entry = "mcp_chat"
    /\ pc = "mcp_test"
    /\ \E r \in {"200", "non-200", "raise"} :
          IF r = "200"
          THEN pc' = "mcp_post" /\ events' = events
          ELSE pc' = "mcp_finally" /\ events' = Append(events, Event("error", 0))
    /\ UNCHANGED <<reqVars, selVars, callVars, agent_type, producer, elapsed,
                   late_chunk, out, streamed, produced>>

\* the chat request: POST /api/chat answers 200 and the lines are read, or
\* answers another status (error event, return), or the request times out,
\* fails in the client or raises otherwise (error event, end of the body)
McpPost ==
    /\ entry = "mcp_chat"
    /\ pc = "mcp_post"
    /\ \E r \in {"200", "non-200", "timeout", "client_error", "exception"} :
          IF r = "200"
          THEN pc' = "mcp_lines" /\ events' = events
          ELSE pc' = "mcp_finally" /\ events' = Append(events, Event("error", 0))
    /\ UNCHANGED <<reqVars, selVars, callVars, agent_type, producer, elapsed,
                   late_chunk, out, streamed, produced>>

\* the lines the generation service can send: an empty line, a line that is
\* not JSON, a chunk with or without content, the final chunk (done: true)
\* with or without content, and a JSON value the chunk handling fails on
McpLines ==
    {[kind |-> "empty", content |-> FALSE, done |-> FALSE],
     [kind |-> "not_json", content |-> FALSE, done |-> FALSE],
     [kind |-> "chunk", content |-> TRUE, done |-> FALSE],
     [kind |-> "chunk", content |-> FALSE, done |-> FALSE],
     [kind |-> "chunk", content |-> TRUE, done |-> TRUE],
     [kind |-> "chunk", content |-> FALSE, done |-> TRUE],
     [kind |-> "bad_chunk", content |-> FALSE, done |-> FALSE]}

\* One turn of `async for line in response.content`: empty lines and lines
\* that are not JSON are skipped; content that is not empty is sent as a
\* content event; a chunk with done: true sends the done marker and
\* returns; any other exception sends an error event and returns.
McpLine ==
    /\ entry = "mcp_chat"
    /\ pc = "mcp_lines"
    /\ \E line \in McpLines :
          LET n == produced + 1
              sent == IF line.content THEN Append(events, Event("content", n))
                      ELSE events
          IN /\ (line.kind = "bad_chunk" \/ line.done) \/ produced < MaxChunks
             /\ produced' = n
             /\ events' = IF line.kind = "bad_chunk" THEN Append(events, Event("error", n))
                          ELSE IF line.done THEN Append(sent, Event("done", 0))
                          ELSE sent
             /\ pc' = IF line.kind = "bad_chunk" \/ line.done THEN "mcp_finally"
                      ELSE "mcp_lines"
    /\ UNCHANGED <<reqVars, selVars, callVars, agent_type, producer, elapsed,
                   late_chunk, out, streamed>>

\* The response body ends without a final chunk, or reading the next line
\* times out, fails in the client or raises: the last three send an error
\* event from the except clauses around the request.
McpStreamStops ==
    /\ entry = "mcp_chat"
    /\ pc = "mcp_lines"
    /\ \E how \in {"closed", "timeout", "client_error", "exception"} :
          events' = IF how = "closed" THEN events
                    ELSE Append(events, Event("error", produced))
    /\ pc' = "mcp_finally"
    /\ UNCHANGED <<reqVars, selVars, callVars, agent_type, producer, elapsed,
                   late_chunk, out, streamed, produced>>

\* finally: yield 'data: {"done": true}', whichever way the body was left
McpFinally ==
    /\ entry = "mcp_chat"
    /\ pc = "mcp_finally"
    /\ events' = Append(events, Event("done", 0))
    /\ pc' = "mcp_closed"
    /\ UNCHANGED <<reqVars, selVars, callVars, agent_type, producer, elapsed,
                   late_chunk, out, streamed, produced>>

InitMcp ==
    /\ entry = "mcp_chat"
    /\ query \in Tasks
    /\ fallback_model = FallbackModel
    /\ user_id = NoUser
    /\ pc = "mcp_test"
    /\ tasks = <<>>
    /\ agent_results = <<>>
    /\ Fresh

NextMcp ==
    \/ McpConnectionTest
    \/ McpPost
    \/ McpLine
    \/ McpStreamStops
    \/ McpFinally

SpecMcp == InitMcp /\ [][NextMcp]_vars

\* C34: the done marker is sent at most once in an event stream of
\* generate_chat_response and nothing is sent after it; a stream that has
\* ended, normally or on an error, has the done marker as its last event.
C34_DoneMarkerExactlyOnce ==
    entry = "mcp_chat" =>
        /\ \A k \in DOMAIN events : events[k].event = "done" => k = Len(events)
        /\ pc = "mcp_closed" => events # <<>> /\ events[Len(events)].event = "done"

====
